---- MODULE Spec2Model ----
(***************************************************************************)
(* A model of the behavioural core of the aquarium simulation: the fish    *)
(* entity (Fish), the fish registry (FishSystem), the food manager         *)
(* (FoodSystem), the economy (GameLogic) and the per-tick interaction pass *)
(* of the engine (UltimateFishTank.updateFoodFishInteractions).            *)
(*                                                                         *)
(* Numbers.  Stats are the source's floats restricted to whole points;     *)
(* elapsed times are multiples of two minutes so that every decay amount   *)
(* is a whole number.  Positions are one coordinate in tenths of a tank    *)
(* unit, so the 0.3 eat threshold is 3.  Nutrition values are in tenths.   *)
(* Math.random() is a choice from a small set of draws.                    *)
(***************************************************************************)
EXTENDS Integers, Sequences, FiniteSets, TLC

VARIABLES
  fish,            \* FishSystem.fish: the registry, a sequence of fish ids
  fishObjs,        \* every Fish object ever constructed, by id
  selectedFish,    \* FishSystem.selectedFish (NoFish for null)
  foodParticles,   \* FoodSystem.foodParticles: the live collection, particle ids
  particles,       \* the FoodParticle objects still referenced, by id
  world,           \* particles whose mesh is in the scene and body in the world
  created,         \* number of FoodParticle objects created so far
  held,            \* the particle reference a caller has kept (NoParticle: none)
  pendingDrops,    \* setTimeout callbacks of the general feed not yet run
  frameCount,      \* UltimateFishTank.frameCount
  playerStats,     \* UltimateFishTank.playerStats (shared with GameLogic)
  achievements,    \* GameLogic.achievements: id -> unlocked flag
  tankStats,       \* UltimateFishTank.tankStats
  emitted,         \* the events the last operation published, in order
  lastOp,          \* the last operation: its name, argument and return value
                   \* (for a food drop: how many particles it evicted)
  listeners,       \* EventSystem.listeners: event type -> callbacks, in order
  eventQueue,      \* EventSystem.eventQueue
  isProcessing,    \* EventSystem.isProcessing
  dispatched,      \* the callbacks the last operation invoked, in order
  isRunning,       \* UltimateFishTank.isRunning
  destroyed        \* the fish whose destroy() has run

vars == <<fish, fishObjs, selectedFish, foodParticles, particles,
          world, created, held, pendingDrops, frameCount, playerStats, achievements, tankStats, emitted, lastOp,
          listeners, eventQueue, isProcessing, dispatched, isRunning, destroyed>>

fishVars == <<fish, fishObjs, selectedFish>>
foodVars == <<foodParticles, particles, world, created, held,
             pendingDrops, frameCount>>
gameVars == <<playerStats, achievements, tankStats>>
busVars == <<listeners, eventQueue, isProcessing, dispatched>>
engineVars == <<isRunning, destroyed>>

----------------------------------------------------------------------------
(* Bounds of the model                                                     *)

MaxFish == 2            \* fish ever constructed
MaxPets == 3            \* cap on Fish.data.consecutivePets
MaxCreated == 57        \* food particles ever created (capacity runs)
MaxDropped == 8         \* food particles ever created (short runs)
MaxTimers == 3          \* general-feed timers pending at once
MaxFrames == 1          \* counted frames of the game loop (short runs)
MaxFed == 101           \* fishFed events handled (economy runs)
MaxPetted == 26         \* fishPetted events handled (economy runs)
MaxCleaned == 6         \* tankCleaned events handled (economy runs)
MaxGameFish == 3        \* fish in the registry (economy runs)
MaxSpent == 20          \* coins spent before another tank cleaning is bought
MaxPassFood == 3        \* food particles ever created (interaction runs)
MaxListeners == 3       \* subscriptions held by the bus (bus runs)
MaxQueue == 2           \* events a publisher may have waiting (bus runs)
MaxRegistryFish == 2    \* fish ever created (registry runs)
MaxFeeds == 1           \* times one fish is petted (registry runs)
MaxFedHunger == 0       \* hunger up to which a fish is fed (registry runs)
MaxTicks == 3           \* frames of the game loop (engine runs)
MaxEngineQueue == 4     \* events waiting in the queue (engine runs)
MaxShopFish == 6        \* fish in the registry (shop runs)
MaxShopRewards == 1     \* rewarded feeds and cleanings (shop runs)
MaxEventQueue == 2      \* events waiting when a caller emits (event runs)
MaxEventFish == 2       \* fish in the registry when addFish is emitted
MaxEventFed == 1        \* rewarded feeds and pettings (event runs)
MaxEventCleaned == 1    \* cleanings when cleanTank is emitted (event runs)
MaxKeptCreated == 7     \* food particles ever created (teardown runs)
MaxQuietLevel == 3      \* player level up to which the handlers without a
                        \* reward (feedFish, fishDied) are run

(* deltaTime handed to FoodSystem.update: short runs, capacity runs        *)
DeltaTimes == {450, 31000}
LongDeltaTimes == {31000}

(* where food is dropped (event position or getRandomSurfacePosition)      *)
DropPositions == {3}

(* Draws of Math.random() in FishSystem.generateRandomFishData             *)
HealthDraws == {90, 99}
HappinessDraws == {70, 89}
HungerDraws == {60, 89}
PosDraws == {0, 2}

(* Draws of the coin rewards: 5 + floor(random * 5), 3 + floor(random * 3) *)
(* and 10 + floor(random * 10).  The economy runs go through more than a   *)
(* hundred rewards, so one draw is taken for each kind.                    *)
FedCoinDraws == {5}
PetCoinDraws == {3}
CleanCoinDraws == {10}

(* Date.now() - lastUpdateTime in the registry runs: one hour              *)
LongElapsedMs == {3600000}

(* Date.now() - lastUpdateTime, in ms (0, 10 minutes, 1 hour)              *)
ElapsedMs == {0, 600000, 3600000}

----------------------------------------------------------------------------
(* Helpers                                                                 *)

NoFish == 0
NoTarget == 0 - 1
NoParticle == 0

Max(a, b) == IF a >= b THEN a ELSE b
Min(a, b) == IF a <= b THEN a ELSE b
Abs(a) == IF a >= 0 THEN a ELSE 0 - a

Range(s) == {s[i] : i \in 1..Len(s)}

Event(type, arg) == [type |-> type, arg |-> arg, text |-> ""]
Message(text) == [type |-> "message", arg |-> 0, text |-> text]
Op(name, arg, ret) == [op |-> name, arg |-> arg, ret |-> ret]

----------------------------------------------------------------------------
(* Fish (src/src/fish/Fish.ts)                                             *)

MsPerMinute == 60000

NewFish(health, happiness, hunger, pos) ==
  [health |-> health, happiness |-> happiness, hunger |-> hunger,
   consecutivePets |-> 0, isSelected |-> FALSE, pos |-> pos,
   foodTarget |-> NoTarget, chasingFood |-> FALSE]

updateStats_hungerBefore(d, deltaTime) ==
  LET hunger == Max(0, d.hunger - (deltaTime * 2) \div MsPerMinute)
      health == IF d.hunger < 20
                THEN Max(0, d.health - deltaTime \div (2 * MsPerMinute))
                ELSE d.health
  IN [d EXCEPT !.hunger = hunger, !.health = health,
               !.happiness = Max(0, d.happiness - deltaTime \div (2 * MsPerMinute))]

(* minutesPassed = deltaTime / 60000; hunger falls 2 per minute, health    *)
(* 0.5 per minute when the new hunger is below 20, happiness 0.5 per       *)
(* minute; each floored at 0.                                              *)
updateStats(d, deltaTime) ==
  LET hunger == Max(0, d.hunger - (deltaTime * 2) \div MsPerMinute)
      health == IF hunger < 20
                THEN Max(0, d.health - deltaTime \div (2 * MsPerMinute))
                ELSE d.health
  IN [d EXCEPT !.hunger = hunger, !.health = health,
               !.happiness = Max(0, d.happiness - deltaTime \div (2 * MsPerMinute))]

feed_noClamp(d) ==
  [d EXCEPT !.hunger = d.hunger + 25, !.happiness = d.happiness + 10]

feed(d) ==
  [d EXCEPT !.hunger = Min(100, d.hunger + 25),
            !.happiness = Min(100, d.happiness + 10)]

pet(d) ==
  [d EXCEPT !.happiness = Min(100, d.happiness + 15),
            !.consecutivePets = d.consecutivePets + 1]

setSelected(d, selected) == [d EXCEPT !.isSelected = selected]

----------------------------------------------------------------------------
(* FishSystem (src/unnamed/part_001): construction                         *)

FishIds == DOMAIN fishObjs

(* generateRandomFishData and new Fish(...).init(): the stats are drawn    *)
(* from [90,100), [70,90) and [60,90); randomizePosition draws the place.  *)
generateRandomFishData ==
  {NewFish(h, p, g, x) : h \in HealthDraws, p \in HappinessDraws,
                         g \in HungerDraws, x \in PosDraws}

InitGame ==
  /\ playerStats = [coins |-> 500, level |-> 1, totalCoinsEarned |-> 500,
                    fishFed |-> 0, tanksCleaned |-> 0, fishPetted |-> 0]
  /\ achievements = [a \in {"first_fish_fed", "fish_lover", "aquarium_master",
                            "clean_keeper", "pet_whisperer", "multi_fish",
                            "coin_collector"} |-> FALSE]
  /\ tankStats = [cleanliness |-> 90]

(* new EventSystem(): no listeners, an empty queue, not processing         *)
InitBus ==
  /\ listeners = <<>>
  /\ eventQueue = <<>>
  /\ isProcessing = FALSE
  /\ dispatched = <<>>

(* the engine after start(): the loop is running, no fish destroyed        *)
InitEngine ==
  /\ isRunning = TRUE
  /\ destroyed = {}

InitFood ==
  /\ foodParticles = <<>>
  /\ particles = <<>>
  /\ world = {}
  /\ created = 0
  /\ held = NoParticle
  /\ pendingDrops = 0
  /\ frameCount = 0

(* createInitialFish: one fish, id 1 *)
InitFish ==
  /\ fish = <<1>>
  /\ \E d \in generateRandomFishData : fishObjs = <<d>>
  /\ selectedFish = NoFish

Init ==
  /\ InitFish
  /\ InitFood
  /\ InitGame
  /\ InitBus
  /\ InitEngine
  /\ emitted = <<>>
  /\ lastOp = Op("init", 0, 0)

----------------------------------------------------------------------------
(* The fish entity on its own: feed(), pet() and the decay step            *)

Fish_feed(f) ==
  /\ fishObjs' = [fishObjs EXCEPT ![f] = feed(@)]
  /\ emitted' = <<>>
  /\ UNCHANGED <<busVars, engineVars>>
  /\ lastOp' = Op("Fish.feed", f, 0)
  /\ UNCHANGED <<fish, selectedFish, foodVars, gameVars>>

Fish_pet(f) ==
  /\ fishObjs[f].consecutivePets < MaxPets
  /\ fishObjs' = [fishObjs EXCEPT ![f] = pet(@)]
  /\ emitted' = <<>>
  /\ UNCHANGED <<busVars, engineVars>>
  /\ lastOp' = Op("Fish.pet", f, 0)
  /\ UNCHANGED <<fish, selectedFish, foodVars, gameVars>>

Fish_updateStats(f, deltaTime) ==
  /\ fishObjs' = [fishObjs EXCEPT ![f] = updateStats(@, deltaTime)]
  /\ emitted' = <<>>
  /\ UNCHANGED <<busVars, engineVars>>
  /\ lastOp' = Op("Fish.updateStats", f, deltaTime)
  /\ UNCHANGED <<fish, selectedFish, foodVars, gameVars>>

NextStats ==
  \E f \in FishIds :
    \/ Fish_feed(f)
    \/ Fish_pet(f)
    \/ \E dt \in ElapsedMs : Fish_updateStats(f, dt)

SpecStats == Init /\ [][NextStats]_vars

InRange(x) == 0 <= x /\ x <= 100

\* C1: after any sequence of feed(), pet() and decay steps with elapsed
\* time >= 0, starting from the generated stats, each of health, happiness
\* and hunger of every fish is within [0,100].
StatsInRange ==
  \A f \in FishIds :
    /\ InRange(fishObjs[f].health)
    /\ InRange(fishObjs[f].happiness)
    /\ InRange(fishObjs[f].hunger)

\* C1 witness: a fish that starved until its health fell and was then fed
\* up to the ceiling of hunger and happiness.
StatsAtBothEnds ==
  \E f \in FishIds :
    /\ fishObjs[f].happiness = 100
    /\ fishObjs[f].hunger = 100
    /\ fishObjs[f].health < 90
    /\ lastOp.op = "Fish.feed"

----------------------------------------------------------------------------
(* FishSystem (src/unnamed/part_001): selection and the registry           *)

(* addRandomFish: a new fish joins the end of the registry                 *)
addRandomFish(d) ==
  /\ fishObjs' = Append(fishObjs, d)
  /\ fish' = Append(fish, Len(fishObjs) + 1)

addRandomFishEvents ==
  <<Event("fishCountChanged", Len(fish) + 1), Message("new fish joined")>>

FishSystem_addRandomFishOf(d) ==
  /\ addRandomFish(d)
  /\ emitted' = addRandomFishEvents
  /\ UNCHANGED <<busVars, engineVars>>
  /\ lastOp' = Op("addRandomFish", 0, Len(fishObjs) + 1)
  /\ UNCHANGED <<selectedFish, foodVars, gameVars>>

FishSystem_addRandomFish ==
  /\ Len(fishObjs) < MaxFish
  /\ \E d \in generateRandomFishData : FishSystem_addRandomFishOf(d)

FishSystem_selectFish_keepPrevious(f) ==
  /\ selectedFish' = f
  /\ fishObjs' = [fishObjs EXCEPT ![f] = setSelected(@, TRUE)]
  /\ emitted' = <<Event("fishSelected", f)>>
  /\ UNCHANGED <<fish, foodVars, gameVars>>

(* selectFish(fish): clear the flag of the previous selection, store the   *)
(* new one, set its flag, publish fishSelected.                            *)
FishSystem_selectFish(f) ==
  /\ selectedFish' = f
  /\ fishObjs' =
       LET cleared == IF selectedFish # NoFish
                      THEN [fishObjs EXCEPT ![selectedFish] = setSelected(@, FALSE)]
                      ELSE fishObjs
       IN [cleared EXCEPT ![f] = setSelected(@, TRUE)]
  /\ emitted' = <<Event("fishSelected", f)>>
  /\ UNCHANGED <<fish, foodVars, gameVars>>

(* deselectFish(): only when something is selected                         *)
FishSystem_deselectFish ==
  /\ IF selectedFish # NoFish
     THEN /\ fishObjs' = [fishObjs EXCEPT ![selectedFish] = setSelected(@, FALSE)]
          /\ selectedFish' = NoFish
          /\ emitted' = <<Event("fishDeselected", 0)>>
     ELSE /\ UNCHANGED <<fishObjs, selectedFish>>
          /\ emitted' = <<>>
  /\ UNCHANGED <<fish, foodVars, gameVars>>

SelectFish(f) ==
  /\ FishSystem_selectFish(f)
  /\ UNCHANGED <<busVars, engineVars>>
  /\ lastOp' = Op("selectFish", f, 0)

DeselectFish ==
  /\ FishSystem_deselectFish
  /\ UNCHANGED <<busVars, engineVars>>
  /\ lastOp' = Op("deselectFish", 0, 0)

(* onMouseClick: the ray hits the mesh of registry fish `hit` (NoFish: it  *)
(* hits nothing).  `resolved` is whether fish.find() finds the owner of    *)
(* the hit object (it looks at the group and its direct children only).    *)
FishSystem_onMouseClick(hit, resolved) ==
  /\ IF hit # NoFish
     THEN IF resolved
          THEN FishSystem_selectFish(hit)
          ELSE /\ emitted' = <<>>
               /\ UNCHANGED <<fishVars, foodVars, gameVars>>
     ELSE FishSystem_deselectFish
  /\ UNCHANGED <<busVars, engineVars>>
  /\ lastOp' = Op("onMouseClick", hit, 0)

NextSelect ==
  \/ FishSystem_addRandomFish
  \/ \E f \in Range(fish) : SelectFish(f)
  \/ DeselectFish
  \/ \E hit \in Range(fish) \cup {NoFish}, resolved \in BOOLEAN :
       FishSystem_onMouseClick(hit, resolved)

SpecSelect == Init /\ [][NextSelect]_vars

\* C5: selecting fish B while a different fish A is selected publishes
\* exactly one fishDeselected event followed by exactly one fishSelected
\* event for B, and B is the selection afterwards.
SwitchEmitsDeselectThenSelect ==
  [][(selectedFish # NoFish /\ selectedFish' # NoFish
      /\ selectedFish' # selectedFish)
     => /\ Len(emitted') = 2
        /\ emitted'[1].type = "fishDeselected"
        /\ emitted'[2] = Event("fishSelected", selectedFish')]_vars

\* C6: at most one fish has its selected flag set, and a fish with the flag
\* set is the one getSelectedFish() returns (none when it returns null).
AtMostOneSelected ==
  /\ Cardinality({f \in FishIds : fishObjs[f].isSelected}) <= 1
  /\ \A f \in FishIds : fishObjs[f].isSelected => selectedFish = f

\* C6 witness: a click moved the selection onto the second fish.
ClickSelectedSecondFish ==
  /\ Len(fish) >= 2
  /\ lastOp = Op("onMouseClick", 2, 0)
  /\ selectedFish = 2
  /\ fishObjs[2].isSelected
  /\ ~fishObjs[1].isSelected

----------------------------------------------------------------------------
(* FoodSystem (src/unnamed/part_000)                                       *)

maxFoodParticles == 50

(* 1 + Math.random() * 2, in tenths: the draw for the id-th particle is    *)
(* taken from a fixed cycle through [1.0, 3.0).                            *)
NutritionDraw(id) == 10 + ((7 * id) % 20)

(* (Math.random() - 0.5) * 0.5, in tenths: the variation of the drop       *)
(* position along the modelled coordinate, from a fixed cycle              *)
PositionDraw(id) == (id % 3) - 1

(* createFoodParticle: age 0, not eaten, material opacity 1 (thousandths); *)
(* the place is the drop position with a slight variation; the mesh goes   *)
(* into the scene and the body into the world (see Push).                  *)
createFoodParticle(position, index, id) ==
  [age |-> 0, eaten |-> FALSE, nutritionValue |-> NutritionDraw(id),
   pos |-> position + PositionDraw(id), opacity |-> 1000]

(* The food manager's state as one value: the array, the particle objects, *)
(* the scene/world membership and the number of objects created.           *)
Food(live, objs, inWorld, n) ==
  [live |-> live, objs |-> objs, world |-> inWorld, created |-> n]

(* removeFoodParticle: mesh out of the scene, body out of the world, and   *)
(* the particle spliced out of the array when indexOf finds it.            *)
removeFoodParticle(fs, p) ==
  [fs EXCEPT !.live = SelectSeq(fs.live, LAMBDA q : q # p),
             !.world = fs.world \ {p}]

(* createFoodParticle followed by foodParticles.push                       *)
Push(fs, position, i) ==
  LET id == fs.created + 1
  IN Food(Append(fs.live, id),
          (id :> createFoodParticle(position, i, id)) @@ fs.objs,
          fs.world \cup {id},
          id)

RECURSIVE dropFoodParticles_noEvict(_, _, _, _)
dropFoodParticles_noEvict(fs, position, i, count) ==
  IF i >= count THEN fs
  ELSE dropFoodParticles_noEvict(Push(fs, position, i), position, i + 1, count)

RECURSIVE dropFoodParticles_evictNewest(_, _, _, _)
dropFoodParticles_evictNewest(fs, position, i, count) ==
  IF i >= count THEN fs
  ELSE LET room == IF Len(fs.live) >= maxFoodParticles
                   THEN removeFoodParticle(fs, fs.live[Len(fs.live)])
                   ELSE fs
       IN dropFoodParticles_evictNewest(Push(room, position, i), position,
                                        i + 1, count)

(* The loop of dropFoodParticles from index i: at capacity remove          *)
(* foodParticles[0], then create and push.                                 *)
RECURSIVE dropFoodParticles(_, _, _, _)
dropFoodParticles(fs, position, i, count) ==
  IF i >= count THEN fs
  ELSE LET room == IF Len(fs.live) >= maxFoodParticles
                   THEN removeFoodParticle(fs, fs.live[1])
                   ELSE fs
       IN dropFoodParticles(Push(room, position, i), position, i + 1, count)

(* getFoodParticles(): the live particles that are not eaten               *)
getFoodParticles(fs) == SelectSeq(fs.live, LAMBDA q : ~fs.objs[q].eaten)

eatFoodParticle_noRemove(fs, p) ==
  IF fs.objs[p].eaten THEN [fs |-> fs, ret |-> 0]
  ELSE [fs |-> [fs EXCEPT !.objs[p].eaten = TRUE],
        ret |-> fs.objs[p].nutritionValue]

(* eatFoodParticle(particle): 0 when already eaten; else mark eaten,       *)
(* remove, return the nutrition value.                                     *)
eatFoodParticle(fs, p) ==
  IF fs.objs[p].eaten THEN [fs |-> fs, ret |-> 0]
  ELSE [fs |-> removeFoodParticle([fs EXCEPT !.objs[p].eaten = TRUE], p),
        ret |-> fs.objs[p].nutritionValue]

(* The body of the loop of FoodSystem.update for one particle: an eaten    *)
(* particle is skipped; otherwise it ages, and it is removed when it lies  *)
(* on the floor with opacity at 0.1 or age above 60000, or when it is off  *)
(* the floor with age above 30000.                                         *)
updateParticle(o, deltaTime, hitBottom) ==
  LET age == o.age + deltaTime
      tooOld == age > 30000
      opacity == IF hitBottom THEN Max(100, o.opacity - deltaTime)
                 ELSE o.opacity
  IN IF o.eaten THEN [obj |-> o, remove |-> FALSE]
     ELSE [obj |-> [o EXCEPT !.age = age, !.opacity = opacity],
           remove |-> IF hitBottom THEN opacity <= 100 \/ age > 60000
                      ELSE tooOld]

(* FoodSystem.update: the loop runs from the last index down, so a removal *)
(* never moves a particle still to be visited; every particle of the array *)
(* gets the loop body once and the survivors keep their order.  `settled`  *)
(* is the set of particles whose body the physics stepper has brought to   *)
(* the floor (body.position.y <= minY + 0.5).                              *)
updateFood(fs, deltaTime, settled) ==
  LET r(p) == updateParticle(fs.objs[p], deltaTime, p \in settled)
      gone == {p \in Range(fs.live) : r(p).remove}
  IN [fs EXCEPT !.objs = [p \in DOMAIN fs.objs |->
                            IF p \in Range(fs.live) THEN r(p).obj
                            ELSE fs.objs[p]],
                !.live = SelectSeq(fs.live, LAMBDA p : p \notin gone),
                !.world = fs.world \ gone]

CurrentFood == Food(foodParticles, particles, world, created)

(* Store the manager's state; a particle object that is neither in the     *)
(* array nor kept by a caller is no longer referenced and is forgotten.    *)
SetFood(fs, keep) ==
  /\ foodParticles' = fs.live
  /\ particles' = [q \in (Range(fs.live) \cup (keep \ {NoParticle}))
                     |-> fs.objs[q]]
  /\ world' = fs.world
  /\ created' = fs.created
  /\ held' = IF keep = {} THEN NoParticle ELSE CHOOSE q \in keep : TRUE

(* the 'dropFood' listener: 3 particles for a target fish, 8 otherwise     *)
FoodSystem_onDropFood(targetFish, position) ==
  LET count == IF targetFish THEN 3 ELSE 8
  IN /\ SetFood(dropFoodParticles(CurrentFood, position, 0, count), {held})
     /\ emitted' = <<Event("foodDropped", count)>>
     /\ UNCHANGED <<busVars, engineVars>>
     /\ lastOp' = Op("dropFood", count,
                     Len(foodParticles) + count - Len(foodParticles'))
     /\ UNCHANGED <<pendingDrops, frameCount, fishVars, gameVars>>

(* the 'feedFish' listener: without a fish id, three timers are set        *)
FoodSystem_onFeedFish(hasFishId) ==
  /\ pendingDrops' = IF hasFishId THEN pendingDrops ELSE pendingDrops + 3
  /\ emitted' = <<>>
  /\ UNCHANGED <<busVars, engineVars>>
  /\ lastOp' = Op("FoodSystem.feedFish", 0, 0)
  /\ UNCHANGED <<foodParticles, particles, world, created, held, frameCount,
                 fishVars, gameVars>>

(* one timer callback of the general feed runs: 4 particles                *)
FoodSystem_timerDrop(position) ==
  /\ pendingDrops > 0
  /\ pendingDrops' = pendingDrops - 1
  /\ SetFood(dropFoodParticles(CurrentFood, position, 0, 4), {held})
  /\ emitted' = <<Event("foodDropped", 4)>>
  /\ UNCHANGED <<busVars, engineVars>>
  /\ lastOp' = Op("timerDrop", 4, Len(foodParticles) + 4 - Len(foodParticles'))
  /\ UNCHANGED <<frameCount, fishVars, gameVars>>

(* eatFoodParticle(p) by a caller that keeps the reference afterwards      *)
(* (keep) or lets go of it                                                 *)
FoodSystem_eatFoodParticle(p, keep) ==
  LET r == eatFoodParticle(CurrentFood, p)
  IN /\ SetFood(r.fs, IF keep THEN {p} ELSE {})
     /\ emitted' = <<>>
     /\ UNCHANGED <<busVars, engineVars>>
     /\ lastOp' = Op("eatFoodParticle", p, r.ret)
     /\ UNCHANGED <<pendingDrops, frameCount, fishVars, gameVars>>

(* FoodSystem.update(deltaTime)                                            *)
FoodUpdate(deltaTime, settled) ==
  /\ SetFood(updateFood(CurrentFood, deltaTime, settled),
             {held})
  /\ emitted' = <<>>
  /\ UNCHANGED <<busVars, engineVars>>
  /\ lastOp' = Op("FoodSystem.update", deltaTime, 0)
  /\ UNCHANGED <<pendingDrops, fishVars, gameVars>>

(* update() called on the food manager directly                            *)
FoodSystem_update(deltaTime, settled) ==
  /\ FoodUpdate(deltaTime, settled)
  /\ UNCHANGED frameCount

(* update() called from a counted frame of the game loop                   *)
GameLoop_foodUpdate(deltaTime, settled) ==
  /\ frameCount' = frameCount + 1
  /\ FoodUpdate(deltaTime, settled)

(* what the physics stepper may have brought to the floor at a frame:      *)
(* nothing, everything, or the oldest particle only                        *)
SettledChoices ==
  {{}, Range(foodParticles)}
  \cup {{foodParticles[i]} : i \in 1..Min(1, Len(foodParticles))}

(* Food runs start with the one initial fish at fixed draws                *)
InitFoodRuns ==
  /\ fish = <<1>>
  /\ fishObjs = <<NewFish(90, 70, 60, 0)>>
  /\ selectedFish = NoFish
  /\ InitFood
  /\ InitGame
  /\ InitBus
  /\ InitEngine
  /\ emitted = <<>>
  /\ lastOp = Op("init", 0, 0)

(* Short runs: few particles, any live or kept particle may be eaten       *)
NextFood ==
  \/ \E targetFish \in BOOLEAN, position \in DropPositions :
       /\ created + (IF targetFish THEN 3 ELSE 8) <= MaxDropped
       /\ FoodSystem_onDropFood(targetFish, position)
  \/ \E hasFishId \in BOOLEAN :
       /\ hasFishId \/ pendingDrops + 3 <= MaxTimers
       /\ FoodSystem_onFeedFish(hasFishId)
  \/ \E position \in DropPositions :
       /\ created + 4 <= MaxDropped
       /\ FoodSystem_timerDrop(position)
  \/ \E p \in Range(foodParticles) \cup ({held} \ {NoParticle}),
        keep \in BOOLEAN :
       FoodSystem_eatFoodParticle(p, keep)
  \/ \E deltaTime \in DeltaTimes, settled \in SettledChoices :
       /\ frameCount < MaxFrames
       /\ GameLoop_foodUpdate(deltaTime, settled)

SpecFood == InitFoodRuns /\ [][NextFood]_vars

(* Capacity runs: drops up to and past the capacity; the oldest particle   *)
(* may be eaten; an update comes after a pause long enough to age out or   *)
(* dissolve every particle.                                                *)
NextFoodCap ==
  \/ \E targetFish \in BOOLEAN, position \in DropPositions :
       /\ created + (IF targetFish THEN 3 ELSE 8) <= MaxCreated
       /\ FoodSystem_onDropFood(targetFish, position)
  \/ \E hasFishId \in BOOLEAN :
       /\ hasFishId \/ pendingDrops + 3 <= MaxTimers
       /\ FoodSystem_onFeedFish(hasFishId)
  \/ \E position \in DropPositions :
       /\ created + 4 <= MaxCreated
       /\ FoodSystem_timerDrop(position)
  \/ /\ foodParticles # <<>>
     /\ FoodSystem_eatFoodParticle(Head(foodParticles), FALSE)
  \/ \E deltaTime \in LongDeltaTimes, settled \in SettledChoices :
       FoodSystem_update(deltaTime, settled)

SpecFoodCap == InitFoodRuns /\ [][NextFoodCap]_vars

IsDrop(op) == op.op \in {"dropFood", "timerDrop"}

\* C2: eatFoodParticle is idempotent per particle.  The first call on a
\* live particle returns its positive nutrition value, marks it eaten and
\* takes it out of the live collection (and of the scene and world) in the
\* same call; a later call returns 0 and changes nothing; eaten never
\* reverts; no particle in foodParticles is eaten, so getFoodParticles()
\* returns none that is.
EatIsIdempotent ==
  [][/\ \A p \in DOMAIN particles \cap DOMAIN particles' :
          particles[p].eaten => particles'[p].eaten
     /\ \A p \in Range(foodParticles') : ~particles'[p].eaten
     /\ getFoodParticles(Food(foodParticles', particles', world', created'))
          = foodParticles'
     /\ lastOp'.op = "eatFoodParticle" =>
          LET p == lastOp'.arg
          IN IF p \in Range(foodParticles)
             THEN /\ lastOp'.ret = particles[p].nutritionValue
                  /\ lastOp'.ret > 0
                  /\ p \notin Range(foodParticles')
                  /\ p \notin world'
                  /\ p \in DOMAIN particles' => particles'[p].eaten
             ELSE /\ particles[p].eaten
                  /\ lastOp'.ret = 0
                  /\ UNCHANGED <<foodParticles, world, created, pendingDrops>>
                  /\ \A q \in Range(foodParticles) : particles'[q] = particles[q]
    ]_vars

\* C2 witness: a second call on a kept, already eaten particle returned 0
\* while other particles are still live.
SecondEatReturnedZero ==
  /\ lastOp.op = "eatFoodParticle"
  /\ lastOp.ret = 0
  /\ foodParticles # <<>>

\* C3: the live collection never holds more than maxFoodParticles
\* particles, and a drop that meets the capacity ends normally, publishing
\* its foodDropped event.
NeverOverCapacity ==
  /\ Len(foodParticles) <= maxFoodParticles
  /\ IsDrop(lastOp) => emitted = <<Event("foodDropped", lastOp.arg)>>

\* C3 witness: a drop had to evict and left the collection exactly full.
FullAfterEviction ==
  /\ IsDrop(lastOp)
  /\ lastOp.ret > 0
  /\ Len(foodParticles) = maxFoodParticles

\* C4: a drop evicts one particle per inserted particle that would not fit,
\* always from the front (the oldest survivors); the remaining particles
\* keep their order and the new ones follow in creation order.
EvictionIsFifo ==
  [][IsDrop(lastOp') =>
       LET count == lastOp'.arg
           n == Len(foodParticles)
           k == Max(0, n + count - maxFoodParticles)
       IN /\ foodParticles' = SubSeq(foodParticles, k + 1, n)
                                \o [i \in 1..count |-> created + i]
          /\ lastOp'.ret = k
          /\ \A i \in 1..k : foodParticles[i] \notin world'
    ]_vars

\* C4 witness: a drop of three on a full collection evicted three.
DropOnFullEvictedThree ==
  /\ lastOp = Op("dropFood", 3, 3)
  /\ Len(foodParticles) = maxFoodParticles
  /\ foodParticles[maxFoodParticles] = created

----------------------------------------------------------------------------
(* GameLogic (src/src/game/GameLogic.ts): the economy                      *)

AchievementIds ==
  <<"first_fish_fed", "fish_lover", "aquarium_master", "clean_keeper",
    "pet_whisperer", "multi_fish", "coin_collector">>

Earned(amount, reason) ==
  [type |-> "coinsEarned", arg |-> amount, text |-> reason]

(* The state a handler works on: playerStats, the achievement map, the     *)
(* tank stats and the events emitted so far by the handler.                *)
CurrentGame ==
  [ps |-> playerStats, ach |-> achievements, tank |-> tankStats, out |-> <<>>]

SetGame(g) ==
  /\ playerStats' = g.ps
  /\ achievements' = g.ach
  /\ tankStats' = g.tank
  /\ emitted' = g.out

(* the condition of each achievement in checkAchievements                  *)
Qualifies(a, ps, fishCount) ==
  CASE a = "first_fish_fed" -> ps.fishFed >= 1
    [] a = "fish_lover" -> ps.fishFed >= 10
    [] a = "aquarium_master" -> ps.fishFed >= 100
    [] a = "clean_keeper" -> ps.tanksCleaned >= 5
    [] a = "pet_whisperer" -> ps.fishPetted >= 25
    [] a = "multi_fish" -> fishCount >= 3
    [] a = "coin_collector" -> ps.totalCoinsEarned >= 1000

(* the announcement loop: per new achievement the unlock event, a message  *)
(* and the 50-coin bonus                                                   *)
Announce(g, newAchievements) ==
  LET n == Len(newAchievements)
  IN [g EXCEPT
        !.ps.coins = @ + 50 * n,
        !.ps.totalCoinsEarned = @ + 50 * n,
        !.out = @ \o [i \in 1..(3 * n) |->
                        LET a == newAchievements[((i - 1) \div 3) + 1]
                        IN CASE (i - 1) % 3 = 0 -> Event("achievementUnlocked", a)
                             [] (i - 1) % 3 = 1 -> Message("Achievement unlocked")
                             [] OTHER -> Earned(50, "Achievement bonus")]]

checkAchievements_noFlag(g, fishCount) ==
  LET new == SelectSeq(AchievementIds,
                       LAMBDA a : Qualifies(a, g.ps, fishCount))
  IN Announce([g EXCEPT !.ach = [a \in DOMAIN g.ach |->
                                   g.ach[a] \/ a \in Range(new)]], new)

(* checkAchievements: the seven tests in order (all read the stats as they *)
(* are on entry), then the announcements.                                  *)
checkAchievements(g, fishCount) ==
  LET new == SelectSeq(AchievementIds,
                       LAMBDA a : ~g.ach[a] /\ Qualifies(a, g.ps, fishCount))
  IN Announce([g EXCEPT !.ach = [a \in DOMAIN g.ach |->
                                   g.ach[a] \/ a \in Range(new)]], new)

(* updatePlayerLevel: one level per call when the cumulative coins reach   *)
(* level * 100, with a bonus of 25 coins per new level.                    *)
updatePlayerLevel(g) ==
  IF g.ps.totalCoinsEarned >= g.ps.level * 100
  THEN LET level == g.ps.level + 1
       IN [g EXCEPT !.ps.level = level,
                    !.ps.coins = @ + level * 25,
                    !.ps.totalCoinsEarned = @ + level * 25,
                    !.out = @ \o <<Event("levelUp", level),
                                   Message("Level up"),
                                   Earned(level * 25, "Level up bonus")>>]
  ELSE g

handleFishFed(g, coinsEarned, fishCount) ==
  updatePlayerLevel(checkAchievements(
    [g EXCEPT !.ps.coins = @ + coinsEarned,
              !.ps.totalCoinsEarned = @ + coinsEarned,
              !.ps.fishFed = @ + 1,
              !.out = @ \o <<Earned(coinsEarned, "Fed fish"),
                             Message("Fish fed")>>],
    fishCount))

handleFishPetted(g, coinsEarned, fishCount) ==
  updatePlayerLevel(checkAchievements(
    [g EXCEPT !.ps.coins = @ + coinsEarned,
              !.ps.totalCoinsEarned = @ + coinsEarned,
              !.ps.fishPetted = @ + 1,
              !.out = @ \o <<Earned(coinsEarned, "Petted fish"),
                             Message("Fish petted! It seems happier!")>>],
    fishCount))

handleFishDied(g) == [g EXCEPT !.out = @ \o <<Message("A fish has died")>>]

handleTankCleaned(g, coinsEarned, fishCount) ==
  updatePlayerLevel(checkAchievements(
    [g EXCEPT !.tank.cleanliness = 100,
              !.ps.tanksCleaned = @ + 1,
              !.ps.coins = @ + coinsEarned,
              !.ps.totalCoinsEarned = @ + coinsEarned,
              !.out = @ \o <<Earned(coinsEarned, "Cleaned tank"),
                             Message("Tank cleaned")>>],
    fishCount))

(* handleFeedButton: a feedFish event for the selected fish, else one per  *)
(* fish of the registry, else a warning                                    *)
handleFeedButton(g) ==
  [g EXCEPT !.out = @ \o
     IF selectedFish # NoFish THEN <<Event("feedFish", selectedFish)>>
     ELSE IF Len(fish) > 0
          THEN [i \in 1..Len(fish) |-> Event("feedFish", fish[i])]
          ELSE <<Message("No fish to feed")>>]

handleCleanButton_refund(g) ==
  IF g.ps.coins >= 20
  THEN [g EXCEPT !.ps.coins = @ - 20,
                 !.ps.totalCoinsEarned = @ - 20,
                 !.out = @ \o <<Event("tankCleaned", 0),
                                Event("cleaningEffect", 0)>>]
  ELSE [g EXCEPT !.out = @ \o <<Message("Not enough coins to clean")>>]

handleCleanButton(g) ==
  IF g.ps.coins >= 20
  THEN [g EXCEPT !.ps.coins = @ - 20,
                 !.out = @ \o <<Event("tankCleaned", 0),
                                Event("cleaningEffect", 0)>>]
  ELSE [g EXCEPT !.out = @ \o <<Message("Not enough coins to clean")>>]

(* the 'fishFed' listener *)
GameLogic_onFishFed(coinsEarned) ==
  /\ SetGame(handleFishFed(CurrentGame, coinsEarned, Len(fish)))
  /\ UNCHANGED <<busVars, engineVars>>
  /\ lastOp' = Op("fishFed", coinsEarned, 0)
  /\ UNCHANGED <<fishVars, foodVars>>

(* the 'fishPetted' listener *)
GameLogic_onFishPetted(coinsEarned) ==
  /\ SetGame(handleFishPetted(CurrentGame, coinsEarned, Len(fish)))
  /\ UNCHANGED <<busVars, engineVars>>
  /\ lastOp' = Op("fishPetted", coinsEarned, 0)
  /\ UNCHANGED <<fishVars, foodVars>>

(* the 'fishDied' listener *)
GameLogic_onFishDied ==
  /\ SetGame(handleFishDied(CurrentGame))
  /\ UNCHANGED <<busVars, engineVars>>
  /\ lastOp' = Op("fishDied", 0, 0)
  /\ UNCHANGED <<fishVars, foodVars>>

(* the 'tankCleaned' listener *)
GameLogic_onTankCleaned(coinsEarned) ==
  /\ SetGame(handleTankCleaned(CurrentGame, coinsEarned, Len(fish)))
  /\ UNCHANGED <<busVars, engineVars>>
  /\ lastOp' = Op("tankCleaned", coinsEarned, 0)
  /\ UNCHANGED <<fishVars, foodVars>>

(* the 'cleanTank' listener *)
GameLogic_onCleanTank ==
  /\ SetGame(handleCleanButton(CurrentGame))
  /\ UNCHANGED <<busVars, engineVars>>
  /\ lastOp' = Op("cleanTank", 0, 0)
  /\ UNCHANGED <<fishVars, foodVars>>

(* the 'feedFish' listener: nothing for a specific fish, else the button   *)
GameLogic_onFeedFish(fishId) ==
  /\ SetGame(IF fishId # NoFish THEN CurrentGame
             ELSE handleFeedButton(CurrentGame))
  /\ UNCHANGED <<busVars, engineVars>>
  /\ lastOp' = Op("feedFish", fishId, 0)
  /\ UNCHANGED <<fishVars, foodVars>>

GameLogic_onAddFish_noCheck(d) ==
  LET fishCost == 50 + Len(fish) * 25
      g == CurrentGame
  IN /\ addRandomFish(d)
     /\ SetGame(checkAchievements(
          [g EXCEPT !.ps.coins = @ - fishCost,
                    !.out = addRandomFishEvents \o <<Message("New fish added")>>],
          Len(fish) + 1))
     /\ UNCHANGED <<busVars, engineVars>>
     /\ lastOp' = Op("addFish", fishCost, 0)
     /\ UNCHANGED <<selectedFish, foodVars>>

(* the 'addFish' listener, handleAddFishButton: the price is 50 plus 25    *)
(* per fish; when paid, the registry adds a fish (data d) and the          *)
(* achievements are checked against the new count.                         *)
GameLogic_onAddFish(d) ==
  LET fishCost == 50 + Len(fish) * 25
      g == CurrentGame
  IN /\ IF g.ps.coins >= fishCost
        THEN /\ addRandomFish(d)
             /\ SetGame(checkAchievements(
                  [g EXCEPT !.ps.coins = @ - fishCost,
                            !.out = addRandomFishEvents
                                      \o <<Message("New fish added")>>],
                  Len(fish) + 1))
        ELSE /\ SetGame([g EXCEPT !.out = <<Message("Not enough coins for a new fish")>>])
             /\ UNCHANGED <<fish, fishObjs>>
     /\ UNCHANGED <<busVars, engineVars>>
     /\ lastOp' = Op("addFish", fishCost, 0)
     /\ UNCHANGED <<selectedFish, foodVars>>

Spent == playerStats.totalCoinsEarned - playerStats.coins

NextGame ==
  \/ \E c \in FedCoinDraws :
       /\ playerStats.fishFed < MaxFed
       /\ GameLogic_onFishFed(c)
  \/ \E c \in PetCoinDraws :
       /\ playerStats.fishPetted < MaxPetted
       /\ GameLogic_onFishPetted(c)
  \/ \E c \in CleanCoinDraws :
       /\ playerStats.tanksCleaned < MaxCleaned
       /\ GameLogic_onTankCleaned(c)
  \/ /\ Spent + 20 <= MaxSpent
     /\ GameLogic_onCleanTank
  \/ /\ Len(fish) < MaxGameFish
     /\ GameLogic_onAddFish(NewFish(90, 70, 60, 0))
  \/ /\ playerStats.level <= MaxQuietLevel
     /\ \E fishId \in {NoFish, 1} : GameLogic_onFeedFish(fishId)
  \/ /\ playerStats.level <= MaxQuietLevel
     /\ GameLogic_onFishDied

SpecGame == InitFoodRuns /\ [][NextGame]_vars

AchievementSet == Range(AchievementIds)

Count(events, type, arg) ==
  Cardinality({i \in 1..Len(events) :
                 events[i].type = type /\ events[i].arg = arg})

\* C7: for each of the seven achievement ids, the achievementUnlocked event
\* and its 50-coin bonus are produced only by the handler call that turns
\* the flag from false to true, once each, and the flag never goes back to
\* false: so at most once over any sequence of fishFed, fishPetted,
\* tankCleaned and addFish events.
UnlockedAtMostOnce ==
  [][LET new == {a \in AchievementSet : ~achievements[a] /\ achievements'[a]}
     IN /\ \A a \in AchievementSet :
             /\ achievements[a] => achievements'[a]
             /\ Count(emitted', "achievementUnlocked", a)
                  = IF a \in new THEN 1 ELSE 0
        /\ Cardinality({i \in 1..Len(emitted') :
                          emitted'[i] = Earned(50, "Achievement bonus")})
             = Cardinality(new)
    ]_vars

\* C7 witness: every counter is past its threshold, all seven achievements
\* are unlocked, and the last qualifying event announced none.
AllUnlockedAndPastThresholds ==
  /\ \A a \in AchievementSet : achievements[a]
  /\ playerStats.fishFed > 100
  /\ playerStats.fishPetted > 25
  /\ playerStats.tanksCleaned > 5
  /\ Len(fish) >= 3
  /\ lastOp.op = "fishFed"
  /\ \A i \in 1..Len(emitted) : emitted[i].type # "achievementUnlocked"

\* C8: across every step handled by GameLogic, playerStats.level and
\* playerStats.totalCoinsEarned never decrease (the coin balance may).
LevelAndEarnedNeverDecrease ==
  [][/\ playerStats'.level >= playerStats.level
     /\ playerStats'.totalCoinsEarned >= playerStats.totalCoinsEarned]_vars

\* C8 witness: coins were spent on a cleaning after levels had been gained.
SpentAfterLevelUp ==
  /\ lastOp.op = "cleanTank"
  /\ playerStats.level > 1
  /\ Spent > 0
  /\ emitted = <<Event("tankCleaned", 0), Event("cleaningEffect", 0)>>

----------------------------------------------------------------------------
(* The interaction pass (src/src/core/Engine.ts)                           *)

EatThreshold == 3

(* Fish.getFoodDetectionRadius, isChasingFood and setFoodTarget: the       *)
(* detection radius is larger than the eat threshold; a fish that has been *)
(* given a target is chasing food.                                         *)
FoodDetectionRadius == 10

getFoodDetectionRadius(d) == FoodDetectionRadius

isChasingFood(d) == d.chasingFood

setFoodTarget(d, position) ==
  [d EXCEPT !.foodTarget = position, !.chasingFood = TRUE]

distanceTo(a, b) == Abs(a - b)

PassEntry(kind, p, f, gained) ==
  [kind |-> kind, particle |-> p, fish |-> f, gained |-> gained]

emitImmediateFishFed_queued(g, f, coinsEarned, fishCount) ==
  [g EXCEPT !.out = @ \o <<Event("fishFed", f)>>]

(* emitImmediate('fishFed'): the listeners run before the pass goes on;    *)
(* GameLogic's is the one that changes state.                              *)
emitImmediateFishFed(g, f, coinsEarned, fishCount) ==
  handleFishFed([g EXCEPT !.out = @ \o <<Event("fishFed", f)>>],
                coinsEarned, fishCount)

visitFish_unguarded(st, p, j, coinsEarned) ==
  LET f == st.reg[j]
      distanceToFood == distanceTo(st.objs[f].pos, st.fs.objs[p].pos)
  IN IF distanceToFood < EatThreshold
     THEN [st EXCEPT !.fs = eatFoodParticle(st.fs, p).fs,
                     !.g = emitImmediateFishFed(@, f, coinsEarned, Len(st.reg)),
                     !.log = Append(@, PassEntry("fishFed", p, f,
                                                 st.fs.objs[p].nutritionValue))]
     ELSE st

(* the body of fish.forEach for particle p and the fish at index j: eat    *)
(* when closer than the threshold and the particle is not eaten, else take *)
(* the particle as target when it is within the detection radius and the   *)
(* fish is not chasing food.                                               *)
visitFish(st, p, j, coinsEarned) ==
  LET f == st.reg[j]
      distanceToFood == distanceTo(st.objs[f].pos, st.fs.objs[p].pos)
  IN IF distanceToFood < EatThreshold /\ ~st.fs.objs[p].eaten
     THEN LET r == eatFoodParticle(st.fs, p)
          IN IF r.ret > 0
             THEN [st EXCEPT !.fs = r.fs,
                             !.g = emitImmediateFishFed(@, f, coinsEarned, Len(st.reg)),
                             !.log = Append(@, PassEntry("fishFed", p, f, r.ret))]
             ELSE [st EXCEPT !.fs = r.fs]
     ELSE IF /\ distanceToFood <= getFoodDetectionRadius(st.objs[f])
             /\ ~isChasingFood(st.objs[f])
          THEN [st EXCEPT !.objs[f] = setFoodTarget(@, st.fs.objs[p].pos),
                          !.log = Append(@, PassEntry("setFoodTarget", p, f, 0))]
          ELSE st

RECURSIVE forEachFish(_, _, _, _)
forEachFish(st, p, j, coinsEarned) ==
  IF j > Len(st.reg) THEN st
  ELSE forEachFish(visitFish(st, p, j, coinsEarned), p, j + 1, coinsEarned)

(* foodParticles.forEach over the array getFoodParticles() returned        *)
RECURSIVE forEachParticle(_, _, _, _)
forEachParticle(st, snapshot, i, coinsEarned) ==
  IF i > Len(snapshot) THEN st
  ELSE LET p == snapshot[i]
       IN forEachParticle(IF st.fs.objs[p].eaten THEN st
                          ELSE forEachFish(st, p, 1, coinsEarned),
                          snapshot, i + 1, coinsEarned)

(* the pass over particles x fish, on the food manager fs, the registry   *)
(* reg (getFish()) with the fish objects objs, and the economy g           *)
interactionPass(fs, reg, objs, g, coinsEarned) ==
  forEachParticle([fs |-> fs, reg |-> reg, objs |-> objs, g |-> g, log |-> <<>>],
                  getFoodParticles(fs), 1, coinsEarned)

(* updateFoodFishInteractions: one pass over particles x fish              *)
updateFoodFishInteractions(coinsEarned) ==
  LET st == interactionPass(CurrentFood, fish, fishObjs, CurrentGame, coinsEarned)
  IN /\ SetFood(st.fs, {held})
     /\ fishObjs' = st.objs
     /\ SetGame(st.g)
     /\ UNCHANGED <<busVars, engineVars>>
     /\ lastOp' = Op("updateFoodFishInteractions", 0, st.log)
     /\ UNCHANGED <<fish, selectedFish, pendingDrops, frameCount>>

(* Interaction runs start with the one initial fish at a drawn place       *)
InitPass ==
  /\ fish = <<1>>
  /\ \E x \in PosDraws : fishObjs = <<NewFish(90, 70, 60, x)>>
  /\ selectedFish = NoFish
  /\ InitFood
  /\ InitGame
  /\ InitBus
  /\ InitEngine
  /\ emitted = <<>>
  /\ lastOp = Op("init", 0, 0)

NextPass ==
  \/ \E targetFish \in BOOLEAN, position \in DropPositions :
       /\ created + (IF targetFish THEN 3 ELSE 8) <= MaxPassFood
       /\ FoodSystem_onDropFood(targetFish, position)
  \/ \E x \in PosDraws :
       /\ Len(fishObjs) < MaxFish
       /\ FishSystem_addRandomFishOf(NewFish(90, 70, 60, x))
  \/ \E deltaTime \in DeltaTimes, settled \in SettledChoices :
       /\ frameCount < MaxFrames
       /\ GameLoop_foodUpdate(deltaTime, settled)
  \/ \E coinsEarned \in FedCoinDraws :
       updateFoodFishInteractions(coinsEarned)

SpecPass == InitPass /\ [][NextPass]_vars

IsPass(op) == op.op = "updateFoodFishInteractions"

\* C9: in one interaction pass, an uneaten particle with one or more fish
\* within the eat threshold is eaten exactly once, by the first such fish
\* in registry order, which gets the particle's positive nutrition value
\* and the only fishFed event for it; a particle with no fish that close is
\* not eaten.
OneEaterPerParticle ==
  [][IsPass(lastOp') =>
       LET log == lastOp'.ret
           fed == {i \in 1..Len(log) : log[i].kind = "fishFed"}
       IN /\ \A p \in Range(getFoodParticles(CurrentFood)) :
               LET near == {j \in 1..Len(fish) :
                              distanceTo(fishObjs[fish[j]].pos, particles[p].pos)
                                < EatThreshold}
                   eats == {i \in fed : log[i].particle = p}
               IN IF near = {}
                  THEN eats = {} /\ p \in Range(foodParticles')
                  ELSE /\ Cardinality(eats) = 1
                       /\ p \notin Range(foodParticles')
                       /\ \A i \in eats :
                            /\ log[i].fish = fish[CHOOSE j \in near : \A k \in near : j <= k]
                            /\ log[i].gained = particles[p].nutritionValue
                            /\ log[i].gained > 0
          /\ Cardinality({i \in 1..Len(emitted') : emitted'[i].type = "fishFed"})
               = Cardinality(fed)
          /\ playerStats'.fishFed = playerStats.fishFed + Cardinality(fed)
    ]_vars

\* C9 witness: two fish were within the threshold of the first particle
\* and the pass fed the first fish with it.
TwoFishNearOneParticle ==
  /\ IsPass(lastOp)
  /\ Len(fish) >= 2
  /\ \A f \in Range(fish) : fishObjs[f].pos = 2
  /\ Len(lastOp.ret) > 0
  /\ lastOp.ret[1] = PassEntry("fishFed", 1, 1, NutritionDraw(1))

\* C10: in one interaction pass, once a particle has been eaten by one
\* fish, no other fish gets that particle's position as its food target in
\* the same pass.
NoTargetOnEatenParticle ==
  IsPass(lastOp) =>
    \A i \in 1..Len(lastOp.ret) : \A j \in 1..Len(lastOp.ret) :
      (i < j /\ lastOp.ret[i].kind = "fishFed"
             /\ lastOp.ret[j].kind = "setFoodTarget")
        => lastOp.ret[j].particle # lastOp.ret[i].particle

----------------------------------------------------------------------------
(* EventSystem (src/src/environment/EnvironmentSystem.ts): the event bus   *)

(* Event types and callbacks of the bus runs.  Each callback stands for a  *)
(* subscriber that, when invoked, does one thing through the bus API:      *)
(* nothing, throw, emit() an event of type "b", off() itself, on() the     *)
(* callback "late" for the type being dispatched, or call update().        *)
EventTypes == {"a", "b"}
Callbacks == {"plain", "thrower", "emitter", "offSelf", "adder", "nester"}

(* The state an operation of the bus works on; raised: an exception is     *)
(* propagating.                                                            *)
CurrentBus ==
  [listeners |-> listeners, eventQueue |-> eventQueue,
   isProcessing |-> isProcessing, dispatched |-> <<>>, raised |-> FALSE]

SetBus(b) ==
  /\ listeners' = b.listeners
  /\ eventQueue' = b.eventQueue
  /\ isProcessing' = b.isProcessing
  /\ dispatched' = b.dispatched

(* listeners.get(eventType), the empty list standing for undefined         *)
callbacksOf(ls, eventType) ==
  IF eventType \in DOMAIN ls THEN ls[eventType] ELSE <<>>

(* callbacks.indexOf(callback): 0 when absent                              *)
indexOf(s, x) ==
  IF x \in Range(s) THEN CHOOSE i \in 1..Len(s) :
                           s[i] = x /\ \A k \in 1..(i - 1) : s[k] # x
  ELSE 0

(* splice(index, 1)                                                        *)
splice(s, index) == SubSeq(s, 1, index - 1) \o SubSeq(s, index + 1, Len(s))

on(b, eventType, callback) ==
  [b EXCEPT !.listeners =
     (eventType :> Append(callbacksOf(b.listeners, eventType), callback)) @@ @]

off(b, eventType, callback) ==
  IF eventType \in DOMAIN b.listeners
     /\ indexOf(b.listeners[eventType], callback) > 0
  THEN [b EXCEPT !.listeners[eventType] = splice(@, indexOf(@, callback))]
  ELSE b

emit(b, eventType, data) ==
  [b EXCEPT !.eventQueue = Append(@, Event(eventType, data))]

Dispatch(e, index, callback, depth) ==
  [event |-> e, index |-> index, callback |-> callback, depth |-> depth]

RECURSIVE update(_, _)
RECURSIVE Invoke(_, _, _, _)
RECURSIVE tryCallback(_, _, _, _)
RECURSIVE forEachCallback(_, _, _, _, _, _)
RECURSIVE forEachEvent(_, _, _, _)
RECURSIVE forEachEvent_lastFirst(_, _, _, _)

(* callback(event)                                                         *)
Invoke(b, callback, e, depth) ==
  CASE callback = "thrower" -> [b EXCEPT !.raised = TRUE]
    [] callback = "emitter" -> emit(b, "b", 0)
    [] callback = "offSelf" -> off(b, e.type, callback)
    [] callback = "adder" -> on(b, e.type, "late")
    [] callback = "nester" -> update(b, depth + 1)
    [] OTHER -> b

tryCallback_noCatch(b, callback, e, depth) == Invoke(b, callback, e, depth)

(* try { callback(event) } catch (error) { console.error(...) }            *)
tryCallback(b, callback, e, depth) ==
  [Invoke(b, callback, e, depth) EXCEPT !.raised = FALSE]

(* callbacks.forEach on the array held by the map: the length is read      *)
(* once, before the first call; each index is looked up in the array as it *)
(* is when the index is reached.  An exception leaving a callback ends the *)
(* loop.                                                                   *)
forEachCallback(b, e, index, depth, i, len) ==
  IF i > len \/ b.raised THEN b
  ELSE LET callbacks == callbacksOf(b.listeners, e.type)
       IN IF i > Len(callbacks)
          THEN forEachCallback(b, e, index, depth, i + 1, len)
          ELSE forEachCallback(
                 tryCallback([b EXCEPT !.dispatched =
                                Append(@, Dispatch(e, index, callbacks[i], depth))],
                             callbacks[i], e, depth),
                 e, index, depth, i + 1, len)

processEvent(b, e, index, depth) ==
  forEachCallback(b, e, index, depth, 1, Len(callbacksOf(b.listeners, e.type)))

forEachEvent_lastFirst(b, eventsToProcess, index, depth) ==
  IF index > Len(eventsToProcess) \/ b.raised THEN b
  ELSE LET last == Len(eventsToProcess) - index + 1
       IN forEachEvent_lastFirst(processEvent(b, eventsToProcess[last], last, depth),
                                 eventsToProcess, index + 1, depth)

(* eventsToProcess.forEach(event => this.processEvent(event))              *)
forEachEvent(b, eventsToProcess, index, depth) ==
  IF index > Len(eventsToProcess) \/ b.raised THEN b
  ELSE forEachEvent(processEvent(b, eventsToProcess[index], index, depth),
                    eventsToProcess, index + 1, depth)

update_clearAfter(b, depth) ==
  IF b.isProcessing \/ b.eventQueue = <<>> THEN b
  ELSE LET done == forEachEvent([b EXCEPT !.isProcessing = TRUE],
                                b.eventQueue, 1, depth)
       IN IF done.raised THEN done
          ELSE [done EXCEPT !.isProcessing = FALSE, !.eventQueue = <<>>]

(* update(): nothing while a drain is running or the queue is empty; else  *)
(* the queue is copied and emptied, the copy dispatched, the guard reset.  *)
update(b, depth) ==
  IF b.isProcessing \/ b.eventQueue = <<>> THEN b
  ELSE LET done == forEachEvent([b EXCEPT !.isProcessing = TRUE,
                                          !.eventQueue = <<>>],
                                b.eventQueue, 1, depth)
       IN IF done.raised THEN done
          ELSE [done EXCEPT !.isProcessing = FALSE]

emitImmediate(b, eventType, data) ==
  processEvent(b, Event(eventType, data), 0, 0)

EventSystem_on(eventType, callback) ==
  /\ SetBus(on(CurrentBus, eventType, callback))
  /\ emitted' = <<>>
  /\ lastOp' = Op("on", eventType, FALSE)
  /\ UNCHANGED <<fishVars, foodVars, gameVars, engineVars>>

EventSystem_off(eventType, callback) ==
  /\ SetBus(off(CurrentBus, eventType, callback))
  /\ emitted' = <<>>
  /\ lastOp' = Op("off", eventType, FALSE)
  /\ UNCHANGED <<fishVars, foodVars, gameVars, engineVars>>

EventSystem_emit(eventType) ==
  /\ SetBus(emit(CurrentBus, eventType, 0))
  /\ emitted' = <<Event(eventType, 0)>>
  /\ lastOp' = Op("emit", eventType, FALSE)
  /\ UNCHANGED <<fishVars, foodVars, gameVars, engineVars>>

EventSystem_emitImmediate(eventType) ==
  LET b == emitImmediate(CurrentBus, eventType, 0)
  IN /\ SetBus(b)
     /\ emitted' = SubSeq(b.eventQueue, Len(eventQueue) + 1, Len(b.eventQueue))
     /\ lastOp' = Op("emitImmediate", eventType, b.raised)
     /\ UNCHANGED <<fishVars, foodVars, gameVars, engineVars>>

EventSystem_update ==
  LET b == update(CurrentBus, 0)
  IN /\ SetBus(b)
     /\ emitted' = IF b.eventQueue = eventQueue THEN <<>> ELSE b.eventQueue
     /\ lastOp' = Op("update", 0, b.raised)
     /\ UNCHANGED <<fishVars, foodVars, gameVars, engineVars>>

Subscriptions(ls) ==
  IF DOMAIN ls = {} THEN 0
  ELSE LET RECURSIVE Sum(_)
           Sum(T) == IF T = {} THEN 0
                     ELSE LET t == CHOOSE x \in T : TRUE
                          IN Len(ls[t]) + Sum(T \ {t})
       IN Sum(DOMAIN ls)

NextBus ==
  \/ \E eventType \in EventTypes, callback \in Callbacks :
       /\ Subscriptions(listeners) < MaxListeners
       /\ callback \notin Range(callbacksOf(listeners, eventType))
       /\ EventSystem_on(eventType, callback)
  \/ \E eventType \in EventTypes, callback \in Callbacks \cup {"late"} :
       /\ callback \in Range(callbacksOf(listeners, eventType))
       /\ EventSystem_off(eventType, callback)
  \/ \E eventType \in EventTypes :
       /\ Len(eventQueue) < MaxQueue
       /\ EventSystem_emit(eventType)
  \/ \E eventType \in EventTypes :
       /\ Len(eventQueue) < MaxQueue
       /\ Subscriptions(listeners) <= MaxListeners
       /\ EventSystem_emitImmediate(eventType)
  \/ /\ Subscriptions(listeners) <= MaxListeners
     /\ EventSystem_update

SpecBus == InitFoodRuns /\ [][NextBus]_vars

IsUpdate(op) == op.op = "update"
IsEmitImmediate(op) == op.op = "emitImmediate"

(* the dispatches of event e (at queue position index) to the callbacks    *)
(* of the list ls holds for its type, in list order                        *)
ExpectedFor(e, index, ls) ==
  [j \in 1..Len(callbacksOf(ls, e.type)) |->
     Dispatch(e, index, callbacksOf(ls, e.type)[j], 0)]

RECURSIVE Expected(_, _, _)
Expected(queue, ls, i) ==
  IF i > Len(queue) THEN <<>>
  ELSE ExpectedFor(queue[i], i, ls) \o Expected(queue, ls, i + 1)

\* C11: within one update() call the queued events are dispatched in the
\* order they were emitted (their order in the queue), and the handlers of
\* each event run in subscription order: on() appends to the list of the
\* type, and a call during which no subscription changes invokes exactly
\* the listed handlers of each event, in list order.
DispatchInEmissionAndSubscriptionOrder ==
  [][/\ IsUpdate(lastOp') =>
          /\ \A i \in 1..Len(dispatched') : \A j \in 1..Len(dispatched') :
               i < j => dispatched'[i].index <= dispatched'[j].index
          /\ \A i \in 1..Len(dispatched') :
               /\ dispatched'[i].index \in 1..Len(eventQueue)
               /\ dispatched'[i].event = eventQueue[dispatched'[i].index]
          /\ listeners' = listeners =>
               dispatched' = Expected(eventQueue, listeners, 1)
     /\ lastOp'.op = "on" =>
          \E callback \in Callbacks :
            listeners'[lastOp'.arg]
              = Append(callbacksOf(listeners, lastOp'.arg), callback)
    ]_vars

\* C11 witness: an update dispatched two queued events, the first of them
\* to two different handlers.
TwoEventsTwoHandlers ==
  /\ IsUpdate(lastOp)
  /\ Len(dispatched) >= 3
  /\ dispatched[1].index = 1
  /\ dispatched[2].index = 1
  /\ dispatched[1].callback # dispatched[2].callback
  /\ dispatched[Len(dispatched)].index = 2

\* C12: an event emitted with emit() by a handler running inside update()
\* is not dispatched by that call: the call dispatches only the events
\* that were queued when it began, and when it returns the queue holds
\* exactly the events emitted meanwhile (which the next call finds).  An
\* update() called from inside a handler dispatches nothing.
EmitDuringDrainIsDeferred ==
  [][IsUpdate(lastOp') =>
       LET emitters == {i \in 1..Len(dispatched') :
                          dispatched'[i].callback = "emitter"}
       IN /\ \A i \in 1..Len(dispatched') :
               /\ dispatched'[i].depth = 0
               /\ dispatched'[i].index \in 1..Len(eventQueue)
          /\ eventQueue' = [k \in 1..Cardinality(emitters) |-> Event("b", 0)]
    ]_vars

\* C12 witness: during one update a handler emitted and a later handler
\* called update(); the emitted event is still queued afterwards.
EmittedThenNestedUpdate ==
  /\ IsUpdate(lastOp)
  /\ eventQueue # <<>>
  /\ \E i \in 1..Len(dispatched) : \E j \in 1..Len(dispatched) :
       /\ i < j
       /\ dispatched[i].callback = "emitter"
       /\ dispatched[j].callback = "nester"

\* C13: when a handler throws during update() or emitImmediate(), the
\* exception does not reach the caller, isProcessing is false afterwards,
\* and (no subscription changing meanwhile) every handler of every event
\* of the call still runs.
ThrowingHandlerIsContained ==
  [][(/\ IsUpdate(lastOp') \/ IsEmitImmediate(lastOp')
      /\ \E i \in 1..Len(dispatched') : dispatched'[i].callback = "thrower")
     => /\ lastOp'.ret = FALSE
        /\ isProcessing' = FALSE
        /\ (IsUpdate(lastOp') /\ listeners' = listeners) =>
             Len(dispatched') = Len(Expected(eventQueue, listeners, 1))
        /\ (IsEmitImmediate(lastOp') /\ listeners' = listeners) =>
             SelectSeq(dispatched', LAMBDA d : d.index = 0)
               = ExpectedFor(Event(lastOp'.arg, 0), 0, listeners)
    ]_vars

\* C13 witness: in one update a handler threw, a handler subscribed after
\* it ran for the same event, and a later event was dispatched too.
ThrowThenOthersRan ==
  /\ IsUpdate(lastOp)
  /\ ~isProcessing
  /\ Len(dispatched) >= 3
  /\ dispatched[1].callback = "thrower"
  /\ dispatched[2].index = 1
  /\ dispatched[Len(dispatched)].index = 2

\* C14: the handlers invoked for one dispatched event are exactly those
\* subscribed to its type when its dispatch began, whatever off() or on()
\* calls the handlers make meanwhile.
DispatchUsesSubscribersAtStart ==
  [][IsEmitImmediate(lastOp') =>
       {dispatched'[i].callback :
          i \in {k \in 1..Len(dispatched') : dispatched'[k].index = 0}}
         = Range(callbacksOf(listeners, lastOp'.arg))
    ]_vars

----------------------------------------------------------------------------
(* FishSystem (src/unnamed/part_001): the tick, feedFish and petFish       *)

(* an id that no fish has *)
UnknownFish == 99

(* Fish.update for every fish of the registry (the stats decay by the time *)
(* since the fish's last update, the behaviour step takes it to the place  *)
(* moves[f]), then the filter: a fish with health <= 0 is destroyed,       *)
(* fishDied is emitted for it and it leaves the registry.                  *)
fishSystemUpdate_keepDead(reg, objs, elapsed, moves) ==
  LET updated == [f \in DOMAIN objs |->
                    IF f \in Range(reg)
                    THEN [updateStats(objs[f], elapsed) EXCEPT !.pos = moves[f]]
                    ELSE objs[f]]
      died == SelectSeq(reg, LAMBDA f : updated[f].health <= 0)
  IN [reg |-> reg,
      objs |-> updated,
      died |-> died,
      out |-> [i \in 1..Len(died) |-> Event("fishDied", died[i])]]

fishSystemUpdate(reg, objs, elapsed, moves) ==
  LET updated == [f \in DOMAIN objs |->
                    IF f \in Range(reg)
                    THEN [updateStats(objs[f], elapsed) EXCEPT !.pos = moves[f]]
                    ELSE objs[f]]
      died == SelectSeq(reg, LAMBDA f : updated[f].health <= 0)
  IN [reg |-> SelectSeq(reg, LAMBDA f : updated[f].health > 0),
      objs |-> updated,
      died |-> died,
      out |-> [i \in 1..Len(died) |-> Event("fishDied", died[i])]]

FishSystem_update(elapsed, moves) ==
  LET r == fishSystemUpdate(fish, fishObjs, elapsed, moves)
  IN /\ fish' = r.reg
     /\ fishObjs' = r.objs
     /\ destroyed' = destroyed \cup Range(r.died)
     /\ emitted' = r.out
     /\ UNCHANGED <<busVars, isRunning>>
     /\ lastOp' = Op("FishSystem.update", elapsed, r.died)
     /\ UNCHANGED <<selectedFish, foodVars, gameVars>>

(* findFishById: NoFish for undefined *)
findFishById(id) == IF id \in Range(fish) THEN id ELSE NoFish

(* fishId ? this.findFishById(fishId) : this.selectedFish *)
targetFish(fishId) ==
  IF fishId # NoFish THEN findFishById(fishId) ELSE selectedFish

FishSystem_feedFish_noCheck(fishId) ==
  /\ emitted' = <<Message("Fish fed successfully!"), Event("fishFed", targetFish(fishId))>>
  /\ UNCHANGED <<busVars, engineVars>>
  /\ lastOp' = Op("feedFish", fishId, targetFish(fishId))
  /\ UNCHANGED <<fish, fishObjs, selectedFish, foodVars, gameVars>>

(* feedFish(fishId?) *)
FishSystem_feedFish(fishId) ==
  /\ IF targetFish(fishId) # NoFish
     THEN /\ fishObjs' = [fishObjs EXCEPT ![targetFish(fishId)] = feed(@)]
          /\ emitted' = <<Message("Fish fed successfully!"),
                          Event("fishFed", targetFish(fishId))>>
     ELSE /\ emitted' = <<Message("No fish selected to feed!")>>
          /\ UNCHANGED fishObjs
  /\ UNCHANGED <<busVars, engineVars>>
  /\ lastOp' = Op("feedFish", fishId, targetFish(fishId))
  /\ UNCHANGED <<fish, selectedFish, foodVars, gameVars>>

(* petFish(fishId?) *)
FishSystem_petFish(fishId) ==
  /\ IF targetFish(fishId) # NoFish
     THEN /\ fishObjs' = [fishObjs EXCEPT ![targetFish(fishId)] = pet(@)]
          /\ emitted' = <<Message("Fish petted! It seems happier!"),
                          Event("fishPetted", targetFish(fishId))>>
     ELSE /\ emitted' = <<Message("No fish selected to pet!")>>
          /\ UNCHANGED fishObjs
  /\ UNCHANGED <<busVars, engineVars>>
  /\ lastOp' = Op("petFish", fishId, targetFish(fishId))
  /\ UNCHANGED <<fish, selectedFish, foodVars, gameVars>>

(* the places Fish.update may take the fish of the registry to             *)
Moves == [Range(fish) -> PosDraws]

(* every fish of the registry stays where it is                            *)
Stay == [f \in Range(fish) |-> fishObjs[f].pos]

(* The registry runs: fish are added, selected, aged by an hour per tick,  *)
(* and fed and petted by request (a fish is fed while its hunger is at     *)
(* most MaxFedHunger and petted fewer than MaxFeeds times); a destroyed    *)
(* fish is fed and petted directly through a reference the caller kept.    *)
MayFeed(f) == IF f = NoFish THEN TRUE ELSE fishObjs[f].hunger <= MaxFedHunger

MayPet(f) == IF f = NoFish THEN TRUE ELSE fishObjs[f].consecutivePets < MaxFeeds

(* ids a request carries: none, the selected fish's (the UI's buttons), an *)
(* id nobody has, or the id of a fish that died                            *)
RequestIds == {NoFish, UnknownFish, selectedFish} \cup destroyed

NextRegistry ==
  \/ /\ Len(fishObjs) < MaxRegistryFish
     /\ FishSystem_addRandomFishOf(NewFish(90, 70, 60, 0))
  \/ \E f \in Range(fish) : SelectFish(f)
  \/ \E elapsed \in LongElapsedMs :
       FishSystem_update(elapsed, Stay)
  \/ \E fishId \in RequestIds :
       /\ MayFeed(targetFish(fishId))
       /\ FishSystem_feedFish(fishId)
  \/ \E fishId \in RequestIds :
       /\ MayPet(targetFish(fishId))
       /\ FishSystem_petFish(fishId)
  \/ \E f \in destroyed :
       /\ MayFeed(f)
       /\ Fish_feed(f)
  \/ \E f \in destroyed :
       /\ MayPet(f)
       /\ Fish_pet(f)

SpecRegistry == InitPass /\ [][NextRegistry]_vars

IsFishUpdate(op) == op.op = "FishSystem.update"

IsRequest(op) == op.op \in {"feedFish", "petFish"}

(* the request names no fish and none is selected, or names an id that no  *)
(* registered fish has                                                     *)
Unresolvable(fishId) ==
  IF fishId = NoFish THEN selectedFish = NoFish ELSE fishId \notin Range(fish)

(* C16: when FishSystem.update() returns, no fish of the registry has      *)
(* health <= 0; every fish it removed has been destroyed and exactly one   *)
(* fishDied was emitted for it; no fishDied is emitted for any other fish, *)
(* so never a second one for a fish already removed.                       *)
DeadFishLeaveOnceWithOneEvent ==
  [][IsFishUpdate(lastOp') =>
       /\ \A f \in Range(fish') : fishObjs'[f].health > 0
       /\ Range(fish') \subseteq Range(fish)
       /\ Range(fish') \cap destroyed' = {}
       /\ \A f \in Range(fish) \ Range(fish') :
            /\ f \in destroyed'
            /\ f \notin destroyed
            /\ Count(emitted', "fishDied", f) = 1
       /\ \A i \in DOMAIN emitted' :
            /\ emitted'[i].type = "fishDied"
            /\ emitted'[i].arg \in Range(fish) \ Range(fish')]_vars

OneFishDiedOneSurvived ==
  /\ IsFishUpdate(lastOp)
  /\ Len(lastOp.ret) = 1
  /\ fish # <<>>
  /\ emitted = <<Event("fishDied", lastOp.ret[1])>>

(* C17: feedFish/petFish whose target cannot be resolved changes no fish's *)
(* stats, emits the warning message and nothing else -- no fishFed or      *)
(* fishPetted -- so no coins are awarded.                                  *)
UnresolvableRequestOnlyWarns ==
  [][(IsRequest(lastOp') /\ Unresolvable(lastOp'.arg)) =>
       /\ fishObjs' = fishObjs
       /\ playerStats' = playerStats
       /\ emitted' = <<Message(IF lastOp'.op = "feedFish"
                               THEN "No fish selected to feed!"
                               ELSE "No fish selected to pet!")>>
       /\ Count(emitted', "fishFed", lastOp'.arg) = 0
       /\ Count(emitted', "fishPetted", lastOp'.arg) = 0]_vars

FedByIdOfDeadFish ==
  /\ lastOp.op = "feedFish"
  /\ lastOp.arg \in destroyed
  /\ lastOp.ret = NoFish
  /\ emitted = <<Message("No fish selected to feed!")>>

(* C18: feed() or pet() on a fish that has been destroyed changes none of  *)
(* its stats.                                                              *)
DestroyedFishIgnoresFeedAndPet ==
  [][(lastOp'.op \in {"Fish.feed", "Fish.pet"} /\ lastOp'.arg \in destroyed) =>
       fishObjs'[lastOp'.arg] = fishObjs[lastOp'.arg]]_vars

(* C20: a fish that consumes a particle in the interaction pass has a      *)
(* higher hunger value afterwards (unless it was already 100), and no      *)
(* other fish's stats change.                                              *)
EaterHungerRises ==
  [][IsPass(lastOp') =>
       LET log == lastOp'.ret
           eaters == {log[i].fish : i \in {k \in 1..Len(log) : log[k].kind = "fishFed"}}
       IN \A f \in FishIds :
            IF f \in eaters
            THEN \/ fishObjs'[f].hunger > fishObjs[f].hunger
                 \/ fishObjs[f].hunger = 100
            ELSE /\ fishObjs'[f].hunger = fishObjs[f].hunger
                 /\ fishObjs'[f].health = fishObjs[f].health
                 /\ fishObjs'[f].happiness = fishObjs[f].happiness]_vars

----------------------------------------------------------------------------
(* UltimateFishTank (src/src/core/Engine.ts): the tick and the teardown    *)

(* The subscriptions after initializeGameSystems, per event type in the    *)
(* order the systems are initialised: effects, fish, food, the engine's    *)
(* own foodDropped listener, game logic, UI.                               *)
EngineListeners ==
  [fishFed |-> <<"EffectsSystem", "GameLogic">>,
   fishPetted |-> <<"EffectsSystem", "GameLogic">>,
   tankCleaned |-> <<"EffectsSystem", "GameLogic">>,
   bubbleEffect |-> <<"EffectsSystem">>,
   dropFood |-> <<"EffectsSystem", "FoodSystem">>,
   feedFish |-> <<"FishSystem", "FoodSystem", "GameLogic">>,
   petFish |-> <<"FishSystem">>,
   addFish |-> <<"FishSystem", "GameLogic">>,
   foodDropped |-> <<"UltimateFishTank">>,
   fishDied |-> <<"GameLogic">>,
   cleanTank |-> <<"GameLogic">>,
   coinsEarned |-> <<"UISystem">>,
   levelUp |-> <<"UISystem">>,
   fishCountChanged |-> <<"UISystem">>,
   tankStatsUpdated |-> <<"UISystem">>,
   fishSelected |-> <<"UISystem">>,
   fishDeselected |-> <<"UISystem">>,
   message |-> <<"UISystem">>,
   achievementUnlocked |-> <<"UISystem">>]

(* what the UI and the keyboard handler publish with the queued emit()     *)
UIEvents == {"feedButton", "cleanButton", "addFishButton", "feedFish",
             "petFish", "keyboard"}

(* what a caller holding getEvents() publishes with emitImmediate(): a     *)
(* message (the UI shows it) and a type nobody subscribed to               *)
ImmediateEvents == {"message", "keyboard"}

(* the time between two frames (performance.now() - lastFrameTime, and    *)
(* the fish's Date.now() - lastUpdateTime), in ms: ten minutes, one hour   *)
TickElapsedMs == {600000, 3600000}

(* deltaTime = (currentTime - lastFrameTime) / 1000: the frame time in     *)
(* seconds, handed as it is to every system's update                       *)
deltaTimeOf(frameMs) == frameMs \div 1000

(* points of cleanliness lost when the 30-second tank update is due        *)
CleanlinessDecay == 1

(* the engine after init() and start()                                     *)
InitEngineRuns ==
  /\ fish = <<1>>
  /\ fishObjs = <<NewFish(90, 70, 60, 0)>>
  /\ selectedFish = NoFish
  /\ InitFood
  /\ InitGame
  /\ listeners = EngineListeners
  /\ eventQueue = <<>>
  /\ isProcessing = FALSE
  /\ dispatched = <<>>
  /\ InitEngine
  /\ emitted = <<>>
  /\ lastOp = Op("init", 0, 0)

(* GameLogic.update: updateTankStats when more than 30 s have passed since *)
(* the last one (statsDue), then monitorFishHealth over the registry.      *)
gameLogicUpdate(g, reg, objs, statsDue) ==
  LET tank == IF statsDue
              THEN [g.tank EXCEPT !.cleanliness = Max(0, @ - CleanlinessDecay)]
              ELSE g.tank
      stats == IF statsDue THEN <<Event("tankStatsUpdated", tank.cleanliness)>>
               ELSE <<>>
      needsAttention == \E f \in Range(reg) :
                          objs[f].health < 30 \/ objs[f].hunger < 20
      warn == IF needsAttention THEN <<Event("fishNeedAttention", 0)>> ELSE <<>>
  IN [g EXCEPT !.tank = tank, !.out = g.out \o stats \o warn]

(* UltimateFishTank.update: fishSystem, foodSystem, gameLogic, then the    *)
(* food-fish interaction pass (physics, camera, environment, effects and   *)
(* UI updates keep no state of the model).  Every emit() of the tick is    *)
(* appended to the queue; the queue is not drained.  The fishFed of the    *)
(* pass is published with emitImmediate and does not enter the queue.      *)
RECURSIVE immediateDispatches(_, _, _)
(* processEvent for each fishFed the pass published with emitImmediate, in *)
(* the order of the pass: the subscribers of fishFed are called one after  *)
(* the other.                                                              *)
immediateDispatches(b, log, i) ==
  IF i > Len(log) THEN b
  ELSE immediateDispatches(
         IF log[i].kind = "fishFed"
         THEN emitImmediate(b, "fishFed", log[i].fish)
         ELSE b,
         log, i + 1)

engineUpdate(elapsed, moves, deltaTime, settled, statsDue, coinsEarned) ==
  LET r == fishSystemUpdate(fish, fishObjs, elapsed, moves)
      fs == updateFood(CurrentFood, deltaTime, settled)
      g == gameLogicUpdate(CurrentGame, r.reg, r.objs, statsDue)
      st == interactionPass(fs, r.reg, r.objs, g, coinsEarned)
  IN [reg |-> r.reg, died |-> r.died, fs |-> st.fs, objs |-> st.objs,
      g |-> st.g, log |-> st.log,
      dispatched |-> immediateDispatches(CurrentBus, st.log, 1).dispatched,
      queued |-> r.out \o SelectSeq(st.g.out, LAMBDA e : e.type # "fishFed")]

(* one frame of gameLoop: returns at once when the loop is stopped         *)
Engine_gameLoop(frameMs, moves, settled, statsDue, coinsEarned) ==
  LET t == engineUpdate(frameMs, moves, deltaTimeOf(frameMs), settled,
                        statsDue, coinsEarned)
  IN /\ isRunning
     /\ frameCount' = frameCount + 1
     /\ fish' = t.reg
     /\ fishObjs' = t.objs
     /\ destroyed' = destroyed \cup Range(t.died)
     /\ SetFood(t.fs, {held})
     /\ playerStats' = t.g.ps
     /\ achievements' = t.g.ach
     /\ tankStats' = t.g.tank
     /\ eventQueue' = eventQueue \o t.queued
     /\ dispatched' = t.dispatched
     /\ emitted' = t.queued
     /\ lastOp' = Op("gameLoop", [frameMs |-> frameMs, settled |-> settled], t.log)
     /\ UNCHANGED <<selectedFish, pendingDrops, listeners, isProcessing, isRunning>>

(* the UI or the keyboard handler publishes an event with emit(); the fish *)
(* panel's feedFish and petFish carry the selected fish's id               *)
UISystem_emit(eventType, fishId) ==
  /\ eventQueue' = Append(eventQueue, Event(eventType, fishId))
  /\ dispatched' = <<>>
  /\ emitted' = <<Event(eventType, fishId)>>
  /\ lastOp' = Op("emit", eventType, FALSE)
  /\ UNCHANGED <<listeners, isProcessing, fishVars, foodVars, gameVars, engineVars>>

(* the 'dropFood' listener of the food system, called with its event; the  *)
(* foodDropped it publishes goes to the queue                              *)
Engine_onDropFood(hasTarget, position) ==
  LET count == IF hasTarget THEN 3 ELSE 8
  IN /\ SetFood(dropFoodParticles(CurrentFood, position, 0, count), {held})
     /\ eventQueue' = Append(eventQueue, Event("foodDropped", count))
     /\ dispatched' = <<>>
     /\ emitted' = <<Event("foodDropped", count)>>
     /\ lastOp' = Op("dropFood", count,
                     Len(foodParticles) + count - Len(foodParticles'))
     /\ UNCHANGED <<listeners, isProcessing, pendingDrops, frameCount,
                    fishVars, gameVars, engineVars>>

RECURSIVE forEachRemove(_, _, _)
(* foodParticles.forEach(p => removeFoodParticle(p)): the length is read   *)
(* once, the element at an index is looked up when the index is reached,   *)
(* and an index the array no longer has is passed over.                    *)
forEachRemove(fs, i, len) ==
  IF i > len THEN fs
  ELSE IF i > Len(fs.live) THEN forEachRemove(fs, i + 1, len)
  ELSE forEachRemove(removeFoodParticle(fs, fs.live[i]), i + 1, len)

(* FoodSystem.destroy: the forEach, then foodParticles = []                *)
foodSystemDestroy(fs) ==
  [forEachRemove(fs, 1, Len(fs.live)) EXCEPT !.live = <<>>]

(* UltimateFishTank.destroy: stop(), fishSystem.destroy() (every fish      *)
(* destroyed, registry emptied, selection cleared), foodSystem.destroy(),  *)
(* events.destroy() (listeners cleared, queue emptied, isProcessing false) *)
Engine_destroy ==
  /\ isRunning' = FALSE
  /\ destroyed' = destroyed \cup Range(fish)
  /\ fish' = <<>>
  /\ selectedFish' = NoFish
  /\ SetFood(foodSystemDestroy(CurrentFood), {held})
  /\ listeners' = <<>>
  /\ eventQueue' = <<>>
  /\ isProcessing' = FALSE
  /\ dispatched' = <<>>
  /\ emitted' = <<>>
  /\ lastOp' = Op("destroy", Len(foodParticles), Range(foodParticles))
  /\ UNCHANGED <<fishObjs, pendingDrops, frameCount, gameVars>>

NextEngine ==
  \/ \E frameMs \in TickElapsedMs, moves \in Moves,
        settled \in SettledChoices, statsDue \in BOOLEAN,
        coinsEarned \in FedCoinDraws :
       /\ frameCount < MaxTicks
       /\ Len(eventQueue) < MaxEngineQueue
       /\ Engine_gameLoop(frameMs, moves, settled, statsDue, coinsEarned)
  \/ \E eventType \in UIEvents :
       /\ isRunning
       /\ Len(eventQueue) < MaxEngineQueue
       /\ eventType \in {"feedFish", "petFish"} => selectedFish # NoFish
       /\ UISystem_emit(eventType, selectedFish)
  \/ \E hasTarget \in BOOLEAN, position \in DropPositions :
       /\ isRunning
       /\ Len(eventQueue) < MaxEngineQueue
       /\ created + (IF hasTarget THEN 3 ELSE 8) <= MaxPassFood
       /\ Engine_onDropFood(hasTarget, position)
  \/ \E eventType \in ImmediateEvents :
       /\ isRunning
       /\ EventSystem_emitImmediate(eventType)
  \/ /\ isRunning
     /\ Engine_destroy

SpecEngine == InitEngineRuns /\ [][NextEngine]_vars

IsTick(op) == op.op = "gameLoop"

(* C15: every event published with the queued emit() while the loop runs   *)
(* is dispatched to the handlers subscribed to its type during the next    *)
(* tick: after a tick the events that waited in the queue before it have   *)
(* left the queue and each subscriber of their type has been called.       *)
QueuedEventsDispatchedByNextTick ==
  [][IsTick(lastOp') =>
       /\ Len(eventQueue') <= Len(emitted')
       /\ \A i \in 1..Len(eventQueue) :
            \A k \in 1..Len(callbacksOf(listeners, eventQueue[i].type)) :
              \E d \in Range(dispatched') :
                /\ d.event = eventQueue[i]
                /\ d.callback = callbacksOf(listeners, eventQueue[i].type)[k]]_vars

(* C19: after UltimateFishTank.destroy() the loop is stopped, the registry *)
(* is empty and every fish destroyed, the bus has no subscribers and an    *)
(* empty queue, and no food particle that was live at teardown still has   *)
(* its body in the world and its mesh in the scene.                        *)
TeardownReleasesEverything ==
  lastOp.op = "destroy" =>
    /\ ~isRunning
    /\ fish = <<>>
    /\ FishIds \subseteq destroyed
    /\ selectedFish = NoFish
    /\ Subscriptions(listeners) = 0
    /\ eventQueue = <<>>
    /\ foodParticles = <<>>
    /\ lastOp.ret \cap world = {}

RECURSIVE ExpectedImmediate(_, _, _)
ExpectedImmediate(log, ls, i) ==
  IF i > Len(log) THEN <<>>
  ELSE (IF log[i].kind = "fishFed"
        THEN ExpectedFor(Event("fishFed", log[i].fish), 0, ls)
        ELSE <<>>) \o ExpectedImmediate(log, ls, i + 1)

(* C21: emitImmediate calls every subscriber of the event's type before it *)
(* returns and leaves the pending queue as it was (no pending event is     *)
(* dispatched or removed; only what a handler itself emits is appended);   *)
(* when a fish eats a particle in the pass the fishFed handlers have run   *)
(* when the tick returns: the fishFed counter has risen by the number of   *)
(* particles eaten and coins and totalCoinsEarned by at least the rewards. *)
ImmediateDispatchIsSynchronous ==
  [][/\ IsEmitImmediate(lastOp') =>
          /\ dispatched' = ExpectedFor(Event(lastOp'.arg, 0), 0, listeners)
          /\ eventQueue' = eventQueue
     /\ IsTick(lastOp') =>
          LET n == Cardinality({i \in 1..Len(lastOp'.ret) :
                                  lastOp'.ret[i].kind = "fishFed"})
          IN /\ dispatched' = ExpectedImmediate(lastOp'.ret, listeners, 1)
             /\ playerStats'.fishFed = playerStats.fishFed + n
             /\ \E c \in FedCoinDraws :
                  /\ playerStats'.coins >= playerStats.coins + c * n
                  /\ playerStats'.totalCoinsEarned
                       >= playerStats.totalCoinsEarned + c * n
             /\ n > 0 => playerStats'.coins > playerStats.coins
             /\ Len(eventQueue') >= Len(eventQueue)
             /\ SubSeq(eventQueue', 1, Len(eventQueue)) = eventQueue
             /\ \A i \in 1..Len(eventQueue') : eventQueue'[i].type # "fishFed"]_vars

AteWhileEventsWerePending ==
  /\ IsTick(lastOp)
  /\ \E i \in 1..Len(lastOp.ret) : lastOp.ret[i].kind = "fishFed"
  /\ Len(eventQueue) > Len(emitted)
  /\ Len(dispatched) = 2
  /\ playerStats.fishFed >= 1

----------------------------------------------------------------------------
(* Fish.getData (src/src/fish/Fish.ts) and what a caller does with the     *)
(* object it returns                                                       *)

(* the stat fields of this.data                                            *)
StatFields == {"health", "happiness", "hunger"}

(* values a caller assigns to a stat field of the object it got            *)
AssignedValues == {0, 100}

getData_alias(d) ==
  [own |-> TRUE,
   data |-> [health |-> d.health, happiness |-> d.happiness,
             hunger |-> d.hunger, consecutivePets |-> d.consecutivePets]]

(* return { ...this.data }: a new object with the fields of this.data;     *)
(* own tells whether the object returned is this.data itself.              *)
getData(d) ==
  [own |-> FALSE,
   data |-> [health |-> d.health, happiness |-> d.happiness,
             hunger |-> d.hunger, consecutivePets |-> d.consecutivePets]]

Fish_getData(f) ==
  /\ lastOp' = Op("getData", f, getData(fishObjs[f]))
  /\ emitted' = <<>>
  /\ UNCHANGED <<fishVars, foodVars, gameVars, busVars, engineVars>>

(* the caller writes `value` to the stat `field` of the object the last    *)
(* getData() returned; the write reaches the fish only when that object is *)
(* the fish's own.                                                         *)
Caller_assign(field, value) ==
  /\ lastOp.op \in {"getData", "assign"}
  /\ IF lastOp.ret.own
     THEN fishObjs' = [fishObjs EXCEPT ![lastOp.arg][field] = value]
     ELSE UNCHANGED fishObjs
  /\ lastOp' = Op("assign", lastOp.arg, [lastOp.ret EXCEPT !.data[field] = value])
  /\ emitted' = <<>>
  /\ UNCHANGED <<fish, selectedFish, foodVars, gameVars, busVars, engineVars>>

NextData ==
  \/ \E f \in FishIds : Fish_feed(f)
  \/ \E f \in FishIds : Fish_pet(f)
  \/ \E f \in FishIds, deltaTime \in ElapsedMs : Fish_updateStats(f, deltaTime)
  \/ \E f \in FishIds : Fish_getData(f)
  \/ \E field \in StatFields, value \in AssignedValues :
       Caller_assign(field, value)

SpecData == InitFoodRuns /\ [][NextData]_vars

(* C22: getData() changes no stat of the fish and applies no decay; what   *)
(* it returns are the fish's stats as feed, pet and the decay steps left   *)
(* them; assigning to a stat field of the returned object does not change  *)
(* the fish's own stats.                                                   *)
GetDataIsPureRead ==
  [][/\ lastOp'.op = "getData" =>
          /\ fishObjs' = fishObjs
          /\ \A field \in StatFields \cup {"consecutivePets"} :
               lastOp'.ret.data[field] = fishObjs[lastOp'.arg][field]
     /\ lastOp'.op = "assign" => fishObjs' = fishObjs]_vars

CopyDiffersFromFish ==
  /\ lastOp.op = "assign"
  /\ lastOp.ret.data.hunger = 0
  /\ fishObjs[lastOp.arg].hunger > 0

(* C23: a particle that is not eaten and not on the floor is removed by    *)
(* the first update after 30 seconds of tick time since it was dropped,    *)
(* and a particle on the floor after 60 seconds at the latest: a frame     *)
(* that lasts longer leaves no particle of before in the live collection.  *)
ParticlesAgeOutOnTickTime ==
  [][IsTick(lastOp') =>
       \A p \in Range(foodParticles) :
         /\ (p \notin lastOp'.arg.settled /\ lastOp'.arg.frameMs > 30000)
              => p \notin Range(foodParticles')
         /\ lastOp'.arg.frameMs > 60000 => p \notin Range(foodParticles')]_vars

----------------------------------------------------------------------------
(* Fish.updateStats on its own, from stats of every kind                   *)

(* stats a fish may have when a decay step begins                          *)
HealthInputs == {0, 2, 50, 100}
HappinessInputs == {0, 3, 70}
HungerInputs == {0, 15, 24, 40, 41, 100}

(* elapsed time of one decay step: 2 minutes, 10 minutes                   *)
DecayMs == {120000, 600000}

InitDecay ==
  /\ fish = <<1>>
  /\ \E h \in HealthInputs, p \in HappinessInputs, g \in HungerInputs :
       fishObjs = <<NewFish(h, p, g, 0)>>
  /\ selectedFish = NoFish
  /\ InitFood
  /\ InitGame
  /\ InitBus
  /\ InitEngine
  /\ emitted = <<>>
  /\ lastOp = Op("init", 0, 0)

NextDecay ==
  \E f \in FishIds, deltaTime \in DecayMs : Fish_updateStats(f, deltaTime)

SpecDecay == InitDecay /\ [][NextDecay]_vars

(* C24: one decay step over t > 0 lowers hunger by 2 per minute and        *)
(* happiness by 0.5 per minute, each floored at 0, and lowers health by    *)
(* 0.5 per minute (floored at 0) exactly when the hunger after the step's  *)
(* own decay is below 20; otherwise health is unchanged.                   *)
DecayStepRates ==
  [][lastOp'.op = "Fish.updateStats" =>
       LET f == lastOp'.arg
           d == fishObjs[f]
           e == fishObjs'[f]
           minutes == lastOp'.ret \div MsPerMinute
       IN /\ minutes > 0
          /\ e.hunger = Max(0, d.hunger - 2 * minutes)
          /\ 2 * e.happiness = Max(0, 2 * d.happiness - minutes)
          /\ IF e.hunger < 20
             THEN 2 * e.health = Max(0, 2 * d.health - minutes)
             ELSE e.health = d.health
          /\ e.hunger >= 0 /\ e.health >= 0 /\ e.happiness >= 0]_vars

HungryFishLostHealth ==
  /\ lastOp.op = "Fish.updateStats"
  /\ lastOp.ret = 600000
  /\ fishObjs[1].hunger = 0
  /\ fishObjs[1].health = 45
  /\ fishObjs[1].happiness = 65

(* C25: whenever a fish is selected it is a member of the registry: the    *)
(* selection is cleared when the selected fish dies, so a request without  *)
(* an id never reaches a destroyed fish.                                   *)
SelectionIsInRegistry ==
  /\ selectedFish # NoFish => selectedFish \in Range(fish)
  /\ (IsRequest(lastOp) /\ lastOp.arg = NoFish) => lastOp.ret \notin destroyed

----------------------------------------------------------------------------
(* GameLogic: the two handlers that spend coins, with few rewards          *)

NextShop ==
  \/ GameLogic_onCleanTank
  \/ /\ Len(fish) < MaxShopFish
     /\ GameLogic_onAddFish(NewFish(90, 70, 60, 0))
  \/ \E c \in CleanCoinDraws :
       /\ playerStats.tanksCleaned < MaxShopRewards
       /\ GameLogic_onTankCleaned(c)
  \/ \E c \in FedCoinDraws :
       /\ playerStats.fishFed < MaxShopRewards
       /\ GameLogic_onFishFed(c)

SpecShop == InitFoodRuns /\ [][NextShop]_vars

(* C28: playerStats.coins is never negative: cleanTank takes 20 only from  *)
(* a balance of 20 or more and addFish the price only from a balance that  *)
(* covers it; a cleanTank with fewer than 20 coins changes neither coins   *)
(* nor cleanliness nor the tanksCleaned counter and emits no tankCleaned.  *)
CoinsNeverNegative ==
  [][/\ playerStats'.coins >= 0
     /\ lastOp'.op = "cleanTank" =>
          IF playerStats.coins >= 20
          THEN /\ playerStats'.coins = playerStats.coins - 20
               /\ Count(emitted', "tankCleaned", 0) = 1
          ELSE /\ playerStats' = playerStats
               /\ tankStats' = tankStats
               /\ Count(emitted', "tankCleaned", 0) = 0
     /\ lastOp'.op = "addFish" =>
          IF playerStats.coins >= lastOp'.arg
          THEN Spent' = Spent + lastOp'.arg
          ELSE playerStats' = playerStats /\ fish' = fish]_vars

CleanRefusedWhenBroke ==
  /\ lastOp.op = "cleanTank"
  /\ playerStats.coins < 20
  /\ emitted = <<Message("Not enough coins to clean")>>

----------------------------------------------------------------------------
(* The subscribers of the engine at work: EventSystem.update() hands each  *)
(* queued event to the listeners of its type, in subscription order.       *)

(* the state the listeners work on; what they publish is appended to g.out *)
CurrentWorld ==
  [reg |-> fish, objs |-> fishObjs, sel |-> selectedFish, g |-> CurrentGame,
   pending |-> pendingDrops]

Publish(w, events) == [w EXCEPT !.g.out = @ \o events]

(* FishSystem.addRandomFish *)
addRandomFishTo(w, d) ==
  Publish([w EXCEPT !.objs = Append(@, d),
                    !.reg = Append(@, Len(w.objs) + 1)],
          <<Event("fishCountChanged", Len(w.reg) + 1), Message("new fish joined")>>)

(* GameLogic.handleAddFishButton *)
handleAddFishButton(w, d) ==
  LET fishCost == 50 + Len(w.reg) * 25
  IN IF w.g.ps.coins >= fishCost
     THEN LET added == Publish(addRandomFishTo([w EXCEPT !.g.ps.coins = @ - fishCost], d),
                               <<Message("New fish added")>>)
          IN [added EXCEPT !.g = checkAchievements(@, Len(added.reg))]
     ELSE Publish(w, <<Message("Not enough coins for a new fish")>>)

(* FishSystem.feedFish(fishId) *)
feedFishIn(w, fishId) ==
  LET target == IF fishId # NoFish
                THEN (IF fishId \in Range(w.reg) THEN fishId ELSE NoFish)
                ELSE w.sel
  IN IF target # NoFish
     THEN Publish([w EXCEPT !.objs[target] = feed(@)],
                  <<Message("Fish fed successfully!"), Event("fishFed", target)>>)
     ELSE Publish(w, <<Message("No fish selected to feed!")>>)

(* FishSystem.petFish(fishId) *)
petFishIn(w, fishId) ==
  LET target == IF fishId # NoFish
                THEN (IF fishId \in Range(w.reg) THEN fishId ELSE NoFish)
                ELSE w.sel
  IN IF target # NoFish
     THEN Publish([w EXCEPT !.objs[target] = pet(@)],
                  <<Message("Fish petted! It seems happier!"),
                    Event("fishPetted", target)>>)
     ELSE Publish(w, <<Message("No fish selected to pet!")>>)

(* FoodSystem's feedFish listener: three timers when no fish is named      *)
scheduleDrops(w, fishId) ==
  IF fishId = NoFish THEN [w EXCEPT !.pending = @ + 3] ELSE w

(* GameLogic's feedFish listener: handleFeedButton when no fish is named   *)
feedButtonIn(w, fishId) ==
  IF fishId # NoFish THEN w
  ELSE Publish(w, IF w.sel # NoFish THEN <<Event("feedFish", w.sel)>>
                  ELSE IF Len(w.reg) > 0
                       THEN [i \in 1..Len(w.reg) |-> Event("feedFish", w.reg[i])]
                       ELSE <<Message("No fish to feed")>>)

(* processEvent with the engine's subscribers: per type the listeners of   *)
(* EngineListeners in their order (those of the effects and the UI keep no *)
(* state of the model).                                                    *)
deliver(w, e, d, fedCoins, petCoins, cleanCoins) ==
  CASE e.type = "addFish" ->
         handleAddFishButton(addRandomFishTo(w, d), d)
    [] e.type = "feedFish" ->
         feedButtonIn(scheduleDrops(feedFishIn(w, e.arg), e.arg), e.arg)
    [] e.type = "petFish" -> petFishIn(w, e.arg)
    [] e.type = "fishFed" ->
         [w EXCEPT !.g = handleFishFed(@, fedCoins, Len(w.reg))]
    [] e.type = "fishPetted" ->
         [w EXCEPT !.g = handleFishPetted(@, petCoins, Len(w.reg))]
    [] e.type = "fishDied" -> [w EXCEPT !.g = handleFishDied(@)]
    [] e.type = "cleanTank" -> [w EXCEPT !.g = handleCleanButton(@)]
    [] e.type = "tankCleaned" ->
         [w EXCEPT !.g = handleTankCleaned(@, cleanCoins, Len(w.reg))]
    [] OTHER -> w

RECURSIVE drain(_, _, _, _, _, _, _)
(* eventsToProcess.forEach(event => processEvent(event))                   *)
drain(w, eventsToProcess, i, d, fedCoins, petCoins, cleanCoins) ==
  IF i > Len(eventsToProcess) THEN w
  ELSE drain(deliver(w, eventsToProcess[i], d, fedCoins, petCoins, cleanCoins),
             eventsToProcess, i + 1, d, fedCoins, petCoins, cleanCoins)

(* EventSystem.update() on the engine's bus: the queue is taken and        *)
(* emptied, every taken event is delivered, and what the listeners         *)
(* published is the new queue.                                             *)
Engine_eventsUpdate(d, fedCoins, petCoins, cleanCoins) ==
  LET w == drain(CurrentWorld, eventQueue, 1, d, fedCoins, petCoins, cleanCoins)
  IN /\ ~isProcessing
     /\ eventQueue # <<>>
     /\ fish' = w.reg
     /\ fishObjs' = w.objs
     /\ selectedFish' = w.sel
     /\ playerStats' = w.g.ps
     /\ achievements' = w.g.ach
     /\ tankStats' = w.g.tank
     /\ pendingDrops' = w.pending
     /\ eventQueue' = w.g.out
     /\ dispatched' = Expected(eventQueue, listeners, 1)
     /\ emitted' = w.g.out
     /\ lastOp' = Op("events.update", eventQueue, FALSE)
     /\ UNCHANGED <<listeners, isProcessing, foodParticles, particles, world,
                    created, held, frameCount, engineVars>>

(* selectFish(fish) on the engine's bus: fishSelected goes to the queue    *)
Engine_selectFish(f) ==
  /\ FishSystem_selectFish(f)
  /\ eventQueue' = Append(eventQueue, Event("fishSelected", f))
  /\ dispatched' = <<>>
  /\ lastOp' = Op("selectFish", f, 0)
  /\ UNCHANGED <<listeners, isProcessing, engineVars>>

(* the events a caller publishes with emit(): requests to the systems      *)
RequestEvents == {"addFish", "cleanTank", "feedFish", "petFish"}

NextEvents ==
  \/ \E eventType \in RequestEvents, fishId \in {NoFish} \cup Range(fish) :
       /\ Len(eventQueue) < MaxEventQueue
       /\ eventType \in {"addFish", "cleanTank"} => fishId = NoFish
       /\ eventType = "addFish" => Len(fish) < MaxEventFish
       /\ eventType = "cleanTank" => playerStats.tanksCleaned < MaxEventCleaned
       /\ eventType \in {"feedFish", "petFish"} =>
            playerStats.fishFed + playerStats.fishPetted < MaxEventFed
       /\ UISystem_emit(eventType, fishId)
  \/ \E f \in Range(fish) :
       /\ Len(eventQueue) < MaxEventQueue
       /\ selectedFish # f
       /\ Engine_selectFish(f)
  \/ \E fedCoins \in FedCoinDraws, petCoins \in PetCoinDraws,
        cleanCoins \in CleanCoinDraws :
       Engine_eventsUpdate(NewFish(90, 70, 60, 0), fedCoins, petCoins, cleanCoins)

SpecEvents == InitEngineRuns /\ [][NextEvents]_vars

IsEventsUpdate(op) == op.op = "events.update"

(* C26: handling one addFish event adds a fish only when the balance       *)
(* covers the price (50 + 25 x the fish count before the event): then one  *)
(* fish is added and that price deducted; otherwise the fish count and the *)
(* balance are unchanged and only the 'not enough coins' message is        *)
(* emitted.                                                                *)
AddFishIsPaidFor ==
  [][(IsEventsUpdate(lastOp') /\ eventQueue = <<Event("addFish", 0)>>) =>
       LET price == 50 + 25 * Len(fish)
       IN IF playerStats.coins >= price
          THEN /\ Len(fish') = Len(fish) + 1
               /\ Spent' = Spent + price
          ELSE /\ Len(fish') = Len(fish)
               /\ playerStats'.coins = playerStats.coins
               /\ emitted' = <<Message("Not enough coins for a new fish")>>]_vars

(* C27: one feedFish event without a fish id, handled while a fish is      *)
(* selected, feeds that fish once in all: hunger +25 and happiness +10     *)
(* (capped at 100), one fishFed event, and no further feed request for a   *)
(* later tick.                                                             *)
GeneralFeedFeedsSelectedOnce ==
  [][(/\ IsEventsUpdate(lastOp')
      /\ eventQueue = <<Event("feedFish", NoFish)>>
      /\ selectedFish \in Range(fish)) =>
       /\ fishObjs'[selectedFish].hunger = Min(100, fishObjs[selectedFish].hunger + 25)
       /\ fishObjs'[selectedFish].happiness
            = Min(100, fishObjs[selectedFish].happiness + 10)
       /\ Count(eventQueue', "fishFed", selectedFish) = 1
       /\ \A i \in 1..Len(eventQueue') : eventQueue'[i].type # "feedFish"]_vars

----------------------------------------------------------------------------
(* FoodSystem around teardown: references handed out by getFoodParticles() *)
(* and by the foodDropped event stay with their holder, and the timers of  *)
(* a general feed are not cancelled by destroy().                          *)

(* a caller takes a particle from getFoodParticles() and keeps it          *)
Caller_keepParticle(p) ==
  /\ p \in Range(getFoodParticles(CurrentFood))
  /\ SetFood(CurrentFood, {p})
  /\ emitted' = <<>>
  /\ lastOp' = Op("getFoodParticles", p, 0)
  /\ UNCHANGED <<busVars, engineVars, pendingDrops, frameCount, fishVars,
                 gameVars>>

NextTeardown ==
  \/ \E position \in DropPositions :
       /\ isRunning
       /\ created + 3 <= MaxKeptCreated
       /\ FoodSystem_onDropFood(TRUE, position)
  \/ /\ isRunning
     /\ pendingDrops + 3 <= MaxTimers
     /\ FoodSystem_onFeedFish(FALSE)
  \/ \E position \in DropPositions :
       /\ created + 4 <= MaxKeptCreated
       /\ FoodSystem_timerDrop(position)
  \/ \E p \in Range(foodParticles) :
       /\ isRunning
       /\ Caller_keepParticle(p)
  \/ \E p \in Range(foodParticles) \cup ({held} \ {NoParticle}) :
       FoodSystem_eatFoodParticle(p, TRUE)
  \/ \E deltaTime \in LongDeltaTimes, settled \in SettledChoices :
       /\ isRunning
       /\ FoodSystem_update(deltaTime, settled)
  \/ /\ isRunning
     /\ Engine_destroy

SpecTeardown == InitEngineRuns /\ [][NextTeardown]_vars

(* C29: once a particle has left the live collection, for any reason,      *)
(* eatFoodParticle on a kept reference to it returns 0 and removes nothing *)
(* a second time: the array, the scene and the world stay as they are.     *)
GoneParticleEatsAsZero ==
  [][(lastOp'.op = "eatFoodParticle" /\ lastOp'.arg \notin Range(foodParticles)) =>
       /\ lastOp'.ret = 0
       /\ foodParticles' = foodParticles
       /\ world' = world]_vars

(* C30: no particle is created after teardown: a deferred drop of the      *)
(* general feed that fires after destroy() creates nothing.                *)
NoDropAfterTeardown ==
  [][(lastOp'.op = "timerDrop" /\ ~isRunning) =>
       /\ created' = created
       /\ foodParticles' = foodParticles
       /\ world' = world]_vars

====
